---------------------------- MODULE Spec2Model ----------------------------
(***************************************************************************)
(* Model of the nmis_dpp core: the schema registry (schema_registry.py),   *)
(* the mapper orchestration (schema_base.py), the ontology bindings of a   *)
(* part (part_class.py) and the definition-based domain classifiers        *)
(* (eclass_build_mapping.py, isa95_build_mapping.py).                      *)
(*                                                                         *)
(* Python values are modelled as follows.  A str is a TLA+ string.  A dict *)
(* whose key order is observable is a sequence of <<key, value>> pairs in  *)
(* insertion order.  A YAML/Python value is a record [t, items] with       *)
(* t in {"none", "dict", "list"}.  An object whose identity matters (a     *)
(* mapper instance) carries the serial number of its construction.         *)
(***************************************************************************)
EXTENDS Integers, Sequences, FiniteSets, TLC

VARIABLES
    mappers,     \* SchemaRegistry._mappers: ordered dict name -> factory
    aliases,     \* SchemaRegistry._aliases: ordered dict alias -> name
    instances,   \* SchemaRegistry._instances: name -> mapper instance
    configs,     \* SchemaRegistry._configs: name -> loaded config
    files,       \* config_dir: file stub -> state of <stub>_mapping.yml
    nextId,      \* number of mapper objects constructed so far
    nregs,       \* number of register / register_lazy calls so far
    nfile,       \* number of changes made to config_dir from outside
    reads,       \* the loads _load_config took from config_dir: <<name, config>>
    last,        \* the last registry call and what it gave its caller
    mbeh,        \* the mapper under map_dpp: what each of its methods does
    passport,    \* the DigitalProductPassport handed to map_dpp
    mres,        \* what SchemaMapper.map_dpp gave its caller, and the calls it made
    isa_mapper,  \* an ISA95Mapper instance: its class and its config
    held_dpp,    \* the DigitalProductPassport the caller of the ISA95Mapper holds
    mapped,      \* what ISA95Mapper.map_dpp gave its caller
    ontology_bindings,  \* PartClass.ontology_bindings: name -> OntologyBinding
    bindlog,     \* the bind_ontology calls made on the part, in order
    part_type,   \* PartClass.type of the part
    equipment,   \* what map_part_class gave for the part as it is now
    definition_text, \* the text handed to a classifier
    classified,  \* the classifier called last and the domain it returned
    scored,      \* the domain_score called last, its domain and its result
    scanned,     \* the class elements parse_eclass_xml has gone through
    classes_by_id,      \* parse_eclass_xml: id -> class record
    case_of_mapping,    \* parse_eclass_xml: base class id -> item class ids
    part_class_mapping, \* what build_domain_mapping returned
    corpus,      \* a taxonomy directory: whether it exists and the files glob finds
    scan         \* the corpus scan or main run last, and what it gave

regvars == <<mappers, aliases, instances, configs, files, nextId, nregs, nfile,
             reads, last>>

isavars == <<isa_mapper, held_dpp, mapped>>

mapvars == <<mbeh, passport, mres, isavars>>

equipvars == <<part_type, equipment>>

partvars == <<ontology_bindings, bindlog, equipvars>>

clsvars == <<definition_text, classified, scored>>

scanvars == <<corpus, scan>>

buildvars == <<scanned, classes_by_id, case_of_mapping, part_class_mapping,
               scanvars>>

vars == <<regvars, mapvars, partvars, clsvars, buildvars>>

-----------------------------------------------------------------------------
(* Bounds of the model *)

MaxRegs == 2
MaxInstances == 2
MaxFileChanges == 1
MaxErrors == 2
MaxBinds == 2
MaxWords == 4
MaxElems == 3
MaxScoreWords == 3
MaxDocs == 3

-----------------------------------------------------------------------------
(* Strings *)

Range(f) == {f[i] : i \in DOMAIN f}

CharAt(s, i) == SubSeq(s, i, i)

\* str.__contains__: k occurs in t as a substring
Contains(t, k) ==
    \E i \in 1..(Len(t) - Len(k) + 1) : SubSeq(t, i, i + Len(k) - 1) = k

UpperChars == <<"A","B","C","D","E","F","G","H","I","J","K","L","M",
                "N","O","P","Q","R","S","T","U","V","W","X","Y","Z">>
LowerChars == <<"a","b","c","d","e","f","g","h","i","j","k","l","m",
                "n","o","p","q","r","s","t","u","v","w","x","y","z">>

LowerChar(c) ==
    IF \E i \in 1..Len(UpperChars) : UpperChars[i] = c
    THEN LowerChars[CHOOSE i \in 1..Len(UpperChars) : UpperChars[i] = c]
    ELSE c

RECURSIVE Lower(_)
\* str.lower()
Lower(s) ==
    IF Len(s) = 0 THEN ""
    ELSE LowerChar(CharAt(s, 1)) \o Lower(SubSeq(s, 2, Len(s)))

RECURSIVE RemoveChar(_, _)
\* str.replace(c, "") for a one-character c
RemoveChar(s, c) ==
    IF Len(s) = 0 THEN ""
    ELSE (IF CharAt(s, 1) = c THEN "" ELSE CharAt(s, 1))
         \o RemoveChar(SubSeq(s, 2, Len(s)), c)

RECURSIVE Join(_, _)
\* sep.join(xs)
Join(sep, xs) ==
    IF Len(xs) = 0 THEN ""
    ELSE IF Len(xs) = 1 THEN xs[1]
    ELSE xs[1] \o sep \o Join(sep, Tail(xs))

\* the characters of the identifiers handled here, in code point order
CodePoints == ".0123456789ABCDEFGHIJKLMNOPQRSTUVWXYZ_abcdefghijklmnopqrstuvwxyz"

\* ord(c), up to an increasing renumbering
Ord(c) == CHOOSE i \in 1..Len(CodePoints) : CharAt(CodePoints, i) = c

RECURSIVE StrLess(_, _)
\* a < b on str
StrLess(a, b) ==
    IF Len(b) = 0 THEN FALSE
    ELSE IF Len(a) = 0 THEN TRUE
    ELSE IF CharAt(a, 1) # CharAt(b, 1) THEN Ord(CharAt(a, 1)) < Ord(CharAt(b, 1))
    ELSE StrLess(SubSeq(a, 2, Len(a)), SubSeq(b, 2, Len(b)))

\* sorted(S) for a set S of str
Sorted(S) ==
    CHOOSE q \in [1..Cardinality(S) -> S] :
        /\ {q[i] : i \in DOMAIN q} = S
        /\ \A i, j \in DOMAIN q : i < j => StrLess(q[i], q[j])

\* str.endswith
EndsWith(s, suffix) ==
    Len(s) >= Len(suffix) /\ SubSeq(s, Len(s) - Len(suffix) + 1, Len(s)) = suffix

\* repr() of a list of str: ['a', 'b']
ListRepr(xs) == "[" \o Join(", ", [i \in 1..Len(xs) |-> "'" \o xs[i] \o "'"]) \o "]"

-----------------------------------------------------------------------------
(* Ordered dicts: sequences of <<key, value>> in insertion order *)

DictKeys(d) == [i \in 1..Len(d) |-> d[i][1]]

DictHas(d, k) == \E i \in 1..Len(d) : d[i][1] = k

DictGet(d, k) == d[CHOOSE i \in 1..Len(d) : d[i][1] = k][2]

\* d[k] = v: an existing key keeps its position
DictSet(d, k, v) ==
    IF DictHas(d, k)
    THEN [i \in 1..Len(d) |-> IF d[i][1] = k THEN <<k, v>> ELSE d[i]]
    ELSE Append(d, <<k, v>>)

\* dict.get(k, default)
DictGetOr(d, k, default) == IF DictHas(d, k) THEN DictGet(d, k) ELSE default

-----------------------------------------------------------------------------
(* Python values held in configuration files *)

PyNone == [t |-> "none", items |-> {}]
EmptyDict == [t |-> "dict", items |-> {}]
EmptyList == [t |-> "list", items |-> {}]
DocA == [t |-> "dict", items |-> {<<"schema_info", "1.0">>}]
DocB == [t |-> "dict", items |-> {<<"domain_mappings", "tbl">>}]

\* bool(v)
Truthy(v) == v.t # "none" /\ v.items # {}

\* v or {}
OrEmptyDict(v) == IF Truthy(v) THEN v ELSE EmptyDict


-----------------------------------------------------------------------------
(* The classes a registry is given, and what an import can find *)

\* get_schema_name(), get_schema_version(), get_context(),
\* issubclass(cls, SchemaMapper) and whether cls(config=...) raises, for each
\* class the registry may be handed
ClassTable ==
    [ISA95Mapper     |-> [schema |-> "ISA-95", version |-> "V0600",
                          context |-> "{'isa95': 'http://www.mesa.org/xml/B2MML-V0600'}",
                          isMapper |-> TRUE, ctorRaises |-> FALSE],
     DummyMapper     |-> [schema |-> "ECLASS", version |-> "1.0",
                          context |-> "{'@context': {}}",
                          isMapper |-> TRUE, ctorRaises |-> FALSE],
     RecordingMapper |-> [schema |-> "ECLASS", version |-> "1.0",
                          context |-> "{'@context': {}}",
                          isMapper |-> TRUE, ctorRaises |-> FALSE],
     FailingMapper   |-> [schema |-> "ECLASS", version |-> "1.0",
                          context |-> "{'@context': {}}",
                          isMapper |-> TRUE, ctorRaises |-> TRUE],
     NotAMapper      |-> [schema |-> "", version |-> "", context |-> "",
                          isMapper |-> FALSE, ctorRaises |-> FALSE]]

ClassNames == DOMAIN ClassTable

\* classes handed to register
RegistryClasses == {"ISA95Mapper", "DummyMapper", "NotAMapper"}

\* what __import__(module_path) and getattr(module, class_name) give a lazy
\* loader: a class, no such module, or no such attribute
LazyTargets == {"ISA95Mapper", "NotAMapper", "NoModule", "NoClass"}

\* canonical names given to register_lazy
LazyNames == {"ISA-95", "ECLASS"}

\* alias lists given to register and register_lazy
AliasLists == {<<>>, <<"ec">>, <<"ECLASS">>}

\* names given to the lookups
LookupNames == {"ISA-95", "ECLASS", "ec", "nope"}

\* states of a file <stub>_mapping.yml in config_dir
FileStates == {"missing", "unreadable", "malformed", "null", "docA", "docB"}

\* yaml.safe_load of a file that opens and parses
YamlLoad(st) ==
    CASE st = "null" -> PyNone
      [] st = "docA" -> DocA
      [] st = "docB" -> DocB

NoInstance == [id |-> 0, cls |-> "none", config |-> PyNone]

NoInfo == [name |-> "", version |-> "", canonical_name |-> "",
           aliases |-> <<>>, mapper_class |-> "", error |-> ""]

\* an Optional[str]: None, or a string
NoneId == [some |-> FALSE, id |-> ""]
SomeId(id) == [some |-> TRUE, id |-> id]

NoPart == [kind |-> "none", ID |-> "", EquipmentClassID |-> NoneId,
           Description |-> "", Properties |-> <<>>]

\* the last call made on the registry and what came of it
NoCall == [op |-> "none", name |-> "", arg |-> "", force |-> FALSE, exc |-> "none",
           msg |-> "", inst |-> NoInstance, val |-> PyNone, info |-> NoInfo,
           doc |-> <<>>, part |-> NoPart, cached |-> FALSE, fst |-> "",
           list |-> <<>>, path |-> ""]

-----------------------------------------------------------------------------
(* SchemaRegistry: lookup helpers *)

\* _resolve_canonical_name
ResolveAliasIgnored(als, name_or_alias) == name_or_alias

ResolveCanonicalName(als, name_or_alias) ==
    DictGetOr(als, name_or_alias, name_or_alias)

\* a file_stub that keeps the dashes of the name
FileStubLowerOnly(canonical_name) == Lower(canonical_name)

\* file_stub = canonical_name.lower().replace("-", "")
FileStub(canonical_name) == RemoveChar(Lower(canonical_name), "-")

\* the name of cfg_path: f"{file_stub}_mapping.yml"
CfgPath(canonical_name) == FileStub(canonical_name) \o "_mapping.yml"

\* the state of the file of config_dir with the given name: the files fs does
\* not hold are missing
FileState(fs, path) ==
    IF \E stub \in DOMAIN fs : stub \o "_mapping.yml" = path
    THEN fs[CHOOSE stub \in DOMAIN fs : stub \o "_mapping.yml" = path]
    ELSE "missing"

\* canonical names given to _load_config directly
LoadNames == {"ISA-95", "ECLASS"}

\* the stubs of the files <stub>_mapping.yml config_dir may hold
Stubs == {"isa95", "eclass"}

\* _load_config without its try/except
LoadConfigUnguarded(cfgs, fs, canonical_name) ==
    IF canonical_name \in DOMAIN cfgs
    THEN [exc |-> "none", val |-> cfgs[canonical_name], cfgs |-> cfgs,
          cached |-> TRUE]
    ELSE LET st == FileState(fs, CfgPath(canonical_name))
         IN  IF st = "missing"
             THEN [exc |-> "none", val |-> EmptyDict,
                   cfgs |-> (canonical_name :> EmptyDict) @@ cfgs,
                   cached |-> FALSE]
             ELSE IF st = "unreadable"
             THEN [exc |-> "OSError", val |-> PyNone, cfgs |-> cfgs,
                   cached |-> FALSE]
             ELSE IF st = "malformed"
             THEN [exc |-> "YAMLError", val |-> PyNone, cfgs |-> cfgs,
                   cached |-> FALSE]
             ELSE [exc |-> "none", val |-> OrEmptyDict(YamlLoad(st)),
                   cfgs |-> (canonical_name :> OrEmptyDict(YamlLoad(st))) @@ cfgs,
                   cached |-> FALSE]

\* _load_config without its look into self._configs
LoadConfigUncached(cfgs, fs, canonical_name) ==
    LET st == FileState(fs, CfgPath(canonical_name))
        cfg == IF st = "missing" THEN EmptyDict
               ELSE IF st \in {"unreadable", "malformed"} THEN EmptyDict
               ELSE OrEmptyDict(YamlLoad(st))
    IN  [exc |-> "none", val |-> cfg,
         cfgs |-> (canonical_name :> cfg) @@ cfgs, cached |-> FALSE]

\* _load_config: the exception raised (none), the returned config, self._configs
\* afterwards, and whether the answer came from self._configs
LoadConfig(cfgs, fs, canonical_name) ==
    IF canonical_name \in DOMAIN cfgs
    THEN [exc |-> "none", val |-> cfgs[canonical_name], cfgs |-> cfgs,
          cached |-> TRUE]
    ELSE LET st == FileState(fs, CfgPath(canonical_name))
             cfg == IF st = "missing" THEN EmptyDict
                    ELSE IF st \in {"unreadable", "malformed"} THEN EmptyDict
                    ELSE OrEmptyDict(YamlLoad(st))
         IN  [exc |-> "none", val |-> cfg,
              cfgs |-> (canonical_name :> cfg) @@ cfgs, cached |-> FALSE]

\* a KeyError message that names no registered schema
NotRegisteredMsgBare(mp, name_or_alias) ==
    "Schema '" \o name_or_alias \o "' not registered."

\* the KeyError message of get_mapper
NotRegisteredMsg(mp, name_or_alias) ==
    "Schema '" \o name_or_alias \o "' not registered. Available: "
        \o ListRepr(DictKeys(mp))

\* lazy_loader() without its issubclass check
LazyLoaderUnchecked(target) ==
    CASE target = "NoModule" -> [exc |-> "ImportError", cls |-> "none"]
      [] target = "NoClass" -> [exc |-> "AttributeError", cls |-> "none"]
      [] OTHER -> [exc |-> "none", cls |-> target]

\* lazy_loader(): the class, or the exception it raises
LazyLoader(target) ==
    CASE target = "NoModule" -> [exc |-> "ImportError", cls |-> "none"]
      [] target = "NoClass" -> [exc |-> "AttributeError", cls |-> "none"]
      [] OTHER -> IF ClassTable[target].isMapper
                  THEN [exc |-> "none", cls |-> target]
                  ELSE [exc |-> "TypeError", cls |-> "none"]

\* get_mapper constructing the mapper as mapper_class(config={})
GetMapperConfigIgnored(mp, als, insts, cfgs, fs, nid, name_or_alias, force_reload) ==
    LET canonical == ResolveCanonicalName(als, name_or_alias)
        same == [exc |-> "none", msg |-> "", inst |-> NoInstance,
                 insts |-> insts, cfgs |-> cfgs, nid |-> nid, cached |-> FALSE,
                 reads |-> <<>>]
    IN  IF ~DictHas(mp, canonical)
        THEN [same EXCEPT !.exc = "KeyError",
                          !.msg = NotRegisteredMsg(mp, name_or_alias)]
        ELSE IF ~force_reload /\ canonical \in DOMAIN insts
        THEN [same EXCEPT !.inst = insts[canonical], !.cached = TRUE]
        ELSE LET f == DictGet(mp, canonical)
                 loaded == IF f.kind = "lazy" THEN LazyLoader(f.target)
                           ELSE [exc |-> "none", cls |-> f.target]
             IN  IF loaded.exc # "none"
                 THEN [same EXCEPT !.exc = loaded.exc]
                 ELSE LET lc == LoadConfig(cfgs, fs, canonical)
                          taken == IF lc.cached THEN <<>>
                                   ELSE <<<<canonical, lc.val>>>>
                      IN  IF lc.exc # "none"
                          THEN [same EXCEPT !.exc = lc.exc, !.cfgs = lc.cfgs,
                                            !.reads = taken]
                          ELSE IF ClassTable[loaded.cls].ctorRaises
                          THEN [same EXCEPT !.exc = "RuntimeError",
                                            !.cfgs = lc.cfgs, !.reads = taken]
                          ELSE LET mapper == [id |-> nid + 1, cls |-> loaded.cls,
                                              config |-> EmptyDict]
                               IN  [same EXCEPT
                                      !.inst = mapper,
                                      !.insts = (canonical :> mapper) @@ insts,
                                      !.cfgs = lc.cfgs,
                                      !.reads = taken,
                                      !.nid = nid + 1]

\* a get_mapper that returns the cached instance even under force_reload
GetMapperForceIgnored(mp, als, insts, cfgs, fs, nid, name_or_alias, force_reload) ==
    LET canonical == ResolveCanonicalName(als, name_or_alias)
        same == [exc |-> "none", msg |-> "", inst |-> NoInstance,
                 insts |-> insts, cfgs |-> cfgs, nid |-> nid, cached |-> FALSE,
                 reads |-> <<>>]
    IN  IF ~DictHas(mp, canonical)
        THEN [same EXCEPT !.exc = "KeyError",
                          !.msg = NotRegisteredMsg(mp, name_or_alias)]
        ELSE IF canonical \in DOMAIN insts
        THEN [same EXCEPT !.inst = insts[canonical], !.cached = TRUE]
        ELSE LET f == DictGet(mp, canonical)
                 loaded == IF f.kind = "lazy" THEN LazyLoader(f.target)
                           ELSE [exc |-> "none", cls |-> f.target]
             IN  IF loaded.exc # "none"
                 THEN [same EXCEPT !.exc = loaded.exc]
                 ELSE LET lc == LoadConfig(cfgs, fs, canonical)
                          taken == IF lc.cached THEN <<>>
                                   ELSE <<<<canonical, lc.val>>>>
                      IN  IF lc.exc # "none"
                          THEN [same EXCEPT !.exc = lc.exc, !.cfgs = lc.cfgs,
                                            !.reads = taken]
                          ELSE IF ClassTable[loaded.cls].ctorRaises
                          THEN [same EXCEPT !.exc = "RuntimeError",
                                            !.cfgs = lc.cfgs, !.reads = taken]
                          ELSE LET mapper == [id |-> nid + 1, cls |-> loaded.cls,
                                              config |-> OrEmptyDict(lc.val)]
                               IN  [same EXCEPT
                                      !.inst = mapper,
                                      !.insts = (canonical :> mapper) @@ insts,
                                      !.cfgs = lc.cfgs,
                                      !.reads = taken,
                                      !.nid = nid + 1]

\* a get_mapper that loads the config of the name before it looks the name up
GetMapperLoadsFirst(mp, als, insts, cfgs, fs, nid, name_or_alias, force_reload) ==
    LET canonical == ResolveCanonicalName(als, name_or_alias)
        same == [exc |-> "none", msg |-> "", inst |-> NoInstance,
                 insts |-> insts, cfgs |-> cfgs, nid |-> nid, cached |-> FALSE,
                 reads |-> <<>>]
    IN  IF ~DictHas(mp, canonical)
        THEN [same EXCEPT !.exc = "KeyError",
                          !.msg = NotRegisteredMsg(mp, name_or_alias),
                          !.cfgs = LoadConfig(cfgs, fs, canonical).cfgs]
        ELSE IF ~force_reload /\ canonical \in DOMAIN insts
        THEN [same EXCEPT !.inst = insts[canonical], !.cached = TRUE]
        ELSE LET f == DictGet(mp, canonical)
                 loaded == IF f.kind = "lazy" THEN LazyLoader(f.target)
                           ELSE [exc |-> "none", cls |-> f.target]
             IN  IF loaded.exc # "none"
                 THEN [same EXCEPT !.exc = loaded.exc]
                 ELSE LET lc == LoadConfig(cfgs, fs, canonical)
                          taken == IF lc.cached THEN <<>>
                                   ELSE <<<<canonical, lc.val>>>>
                      IN  IF lc.exc # "none"
                          THEN [same EXCEPT !.exc = lc.exc, !.cfgs = lc.cfgs,
                                            !.reads = taken]
                          ELSE IF ClassTable[loaded.cls].ctorRaises
                          THEN [same EXCEPT !.exc = "RuntimeError",
                                            !.cfgs = lc.cfgs, !.reads = taken]
                          ELSE LET mapper == [id |-> nid + 1, cls |-> loaded.cls,
                                              config |-> OrEmptyDict(lc.val)]
                               IN  [same EXCEPT
                                      !.inst = mapper,
                                      !.insts = (canonical :> mapper) @@ insts,
                                      !.cfgs = lc.cfgs,
                                      !.reads = taken,
                                      !.nid = nid + 1]

\* a get_mapper that drops the cached instance when the constructor raises
GetMapperDropsOnFailure(mp, als, insts, cfgs, fs, nid, name_or_alias, force_reload) ==
    LET canonical == ResolveCanonicalName(als, name_or_alias)
        same == [exc |-> "none", msg |-> "", inst |-> NoInstance,
                 insts |-> insts, cfgs |-> cfgs, nid |-> nid, cached |-> FALSE,
                 reads |-> <<>>]
    IN  IF ~DictHas(mp, canonical)
        THEN [same EXCEPT !.exc = "KeyError",
                          !.msg = NotRegisteredMsg(mp, name_or_alias)]
        ELSE IF ~force_reload /\ canonical \in DOMAIN insts
        THEN [same EXCEPT !.inst = insts[canonical], !.cached = TRUE]
        ELSE LET f == DictGet(mp, canonical)
                 loaded == IF f.kind = "lazy" THEN LazyLoader(f.target)
                           ELSE [exc |-> "none", cls |-> f.target]
             IN  IF loaded.exc # "none"
                 THEN [same EXCEPT !.exc = loaded.exc]
                 ELSE LET lc == LoadConfig(cfgs, fs, canonical)
                          taken == IF lc.cached THEN <<>>
                                   ELSE <<<<canonical, lc.val>>>>
                      IN  IF lc.exc # "none"
                          THEN [same EXCEPT !.exc = lc.exc, !.cfgs = lc.cfgs,
                                            !.reads = taken]
                          ELSE IF ClassTable[loaded.cls].ctorRaises
                          THEN [same EXCEPT
                                      !.exc = "RuntimeError",
                                      !.insts = [d \in DOMAIN insts \ {canonical}
                                                    |-> insts[d]],
                                      !.cfgs = lc.cfgs, !.reads = taken]
                          ELSE LET mapper == [id |-> nid + 1, cls |-> loaded.cls,
                                              config |-> OrEmptyDict(lc.val)]
                               IN  [same EXCEPT
                                      !.inst = mapper,
                                      !.insts = (canonical :> mapper) @@ insts,
                                      !.cfgs = lc.cfgs,
                                      !.reads = taken,
                                      !.nid = nid + 1]

\* get_mapper: what the caller gets and the tables afterwards
GetMapper(mp, als, insts, cfgs, fs, nid, name_or_alias, force_reload) ==
    LET canonical == ResolveCanonicalName(als, name_or_alias)
        same == [exc |-> "none", msg |-> "", inst |-> NoInstance,
                 insts |-> insts, cfgs |-> cfgs, nid |-> nid, cached |-> FALSE,
                 reads |-> <<>>]
    IN  IF ~DictHas(mp, canonical)
        THEN [same EXCEPT !.exc = "KeyError",
                          !.msg = NotRegisteredMsg(mp, name_or_alias)]
        ELSE IF ~force_reload /\ canonical \in DOMAIN insts
        THEN [same EXCEPT !.inst = insts[canonical], !.cached = TRUE]
        ELSE LET f == DictGet(mp, canonical)
                 loaded == IF f.kind = "lazy" THEN LazyLoader(f.target)
                           ELSE [exc |-> "none", cls |-> f.target]
             IN  IF loaded.exc # "none"
                 THEN [same EXCEPT !.exc = loaded.exc]
                 ELSE LET lc == LoadConfig(cfgs, fs, canonical)
                          taken == IF lc.cached THEN <<>>
                                   ELSE <<<<canonical, lc.val>>>>
                      IN  IF lc.exc # "none"
                          THEN [same EXCEPT !.exc = lc.exc, !.cfgs = lc.cfgs,
                                            !.reads = taken]
                          ELSE IF ClassTable[loaded.cls].ctorRaises
                          THEN [same EXCEPT !.exc = "RuntimeError",
                                            !.cfgs = lc.cfgs, !.reads = taken]
                          ELSE LET mapper == [id |-> nid + 1, cls |-> loaded.cls,
                                              config |-> OrEmptyDict(lc.val)]
                               IN  [same EXCEPT
                                      !.inst = mapper,
                                      !.insts = (canonical :> mapper) @@ insts,
                                      !.cfgs = lc.cfgs,
                                      !.reads = taken,
                                      !.nid = nid + 1]

\* list_aliases
ListAliases(als, canonical_name) ==
    SelectSeq(DictKeys(als), LAMBDA a : DictGet(als, a) = canonical_name)

-----------------------------------------------------------------------------
(* SchemaMapper.map_dpp: the orchestration of a mapper's own methods *)

\* the layer keys of the mapped document, in the order map_dpp maps them
LayerNames ==
    <<"identity", "structure", "lifecycle", "risk", "sustainability", "provenance">>

\* map_<layer>_layer, the method that maps a layer
LayerMethod(layer) == "map_" \o layer \o "_layer"

\* what a successful map_<layer>_layer call returns: a fragment made by that
\* method of the layer it was handed
Fragment(method, data) == [by |-> method, of |-> data]

NoDoc == <<>>

\* map_dpp that swallows a failed layer mapping and carries on
RECURSIVE MapLayersSwallowing(_, _, _, _, _)
MapLayersSwallowing(beh, dpp, i, doc, calls) ==
    IF i > Len(LayerNames)
    THEN [exc |-> "none", doc |-> doc, calls |-> calls]
    ELSE LET layer == LayerNames[i]
             m == LayerMethod(layer)
             called == Append(calls, [m |-> m, arg |-> <<dpp[layer]>>])
         IN  MapLayersSwallowing(beh, dpp, i + 1,
                 IF beh.layer[layer] # "none" THEN doc
                 ELSE Append(doc, <<layer, Fragment(m, dpp[layer])>>),
                 called)

\* The dict display of map_dpp evaluates its entries in order: the layers from
\* the i-th on, given the entries and the calls made so far.  A raising call
\* ends the evaluation.
RECURSIVE MapLayersFrom(_, _, _, _, _)
MapLayersFrom(beh, dpp, i, doc, calls) ==
    IF i > Len(LayerNames)
    THEN [exc |-> "none", doc |-> doc, calls |-> calls]
    ELSE LET layer == LayerNames[i]
             m == LayerMethod(layer)
             called == Append(calls, [m |-> m, arg |-> <<dpp[layer]>>])
         IN  IF beh.layer[layer] # "none"
             THEN [exc |-> beh.layer[layer], doc |-> NoDoc, calls |-> called]
             ELSE MapLayersFrom(beh, dpp, i + 1,
                                Append(doc, <<layer, Fragment(m, dpp[layer])>>),
                                called)

\* map_dpp with the validation step left out
MapDppUnvalidated(beh, dpp) ==
    LET head == <<<<"schema", beh.schema>>, <<"schema_version", beh.version>>,
                  <<"@context", beh.context>>>>
        r == MapLayersFrom(beh, dpp, 1, head, <<>>)
    IN  [exc |-> r.exc, msg |-> "", doc |-> r.doc, calls |-> r.calls]

\* map_dpp whose error message carries only the first validation error
ValidationMsgFirstOnly(errors) ==
    "Validation failed: " \o (IF Len(errors) = 0 THEN "" ELSE errors[1])

\* error_msg = f"Validation failed: {'; '.join(errors)}"
ValidationMsg(errors) == "Validation failed: " \o Join("; ", errors)

\* SchemaMapper.map_dpp: the exception that reaches the caller ("none" when it
\* returns), its message, the returned document and the calls made on the
\* mapper's own methods
MapDpp(beh, dpp) ==
    LET head == <<<<"schema", beh.schema>>, <<"schema_version", beh.version>>,
                  <<"@context", beh.context>>>>
        r == MapLayersFrom(beh, dpp, 1, head, <<>>)
    IN  IF r.exc # "none"
        THEN [exc |-> r.exc, msg |-> "", doc |-> NoDoc, calls |-> r.calls]
        ELSE LET called == Append(r.calls,
                                  [m |-> "validate_mapping", arg |-> r.doc])
             IN  IF beh.validate.exc # "none"
                 THEN [exc |-> beh.validate.exc, msg |-> "", doc |-> NoDoc,
                       calls |-> called]
                 ELSE IF ~beh.validate.ok
                 THEN [exc |-> "ValueError",
                       msg |-> ValidationMsg(beh.validate.errors),
                       doc |-> NoDoc, calls |-> called]
                 ELSE [exc |-> "none", msg |-> "", doc |-> r.doc,
                       calls |-> called]

-----------------------------------------------------------------------------
(* Mappers and passports handed to map_dpp *)

LayerSet == Range(LayerNames)

\* messages a validate_mapping may report
ErrorPool == {"Schema mismatch", "ID missing"}

ErrorLists == UNION {[1..n -> ErrorPool] : n \in 0..MaxErrors}

\* what a mapper's methods do when called: each map_<layer>_layer returns its
\* fragment or raises its own exception; validate_mapping returns
\* (ok, errors) or raises
Behaviours ==
    [schema : {"ISA-95"}, version : {"V0600"}, context : {"isa95-context"},
     layer : [LayerSet -> {"none", "LayerError"}],
     validate : [exc : {"none"}, ok : BOOLEAN, errors : ErrorLists]
                \cup {[exc |-> "ValidateError", ok |-> FALSE, errors |-> <<>>]}]

Passports ==
    {[identity |-> "identity-1", structure |-> "structure-1",
      lifecycle |-> "lifecycle-1", risk |-> "risk-1",
      sustainability |-> "sustainability-1", provenance |-> "provenance-1"],
     [identity |-> "identity-2", structure |-> "structure-2",
      lifecycle |-> "lifecycle-2", risk |-> "risk-2",
      sustainability |-> "sustainability-2", provenance |-> "provenance-2"]}

NoResult == [exc |-> "pending", msg |-> "", doc |-> NoDoc, calls |-> <<>>]

NoBehaviour ==
    [schema |-> "", version |-> "", context |-> "",
     layer |-> [l \in LayerSet |-> "none"],
     validate |-> [exc |-> "none", ok |-> TRUE, errors |-> <<>>]]

\* no ISA95Mapper is at work
NoMapped == [exc |-> "pending", doc |-> <<>>]

IdleIsa95 ==
    /\ isa_mapper = NoInstance
    /\ held_dpp = <<>>
    /\ mapped = NoMapped

IdleMapper ==
    /\ IdleIsa95
    /\ mbeh = NoBehaviour
    /\ passport = [identity |-> "identity-1", structure |-> "structure-1",
                   lifecycle |-> "lifecycle-1", risk |-> "risk-1",
                   sustainability |-> "sustainability-1",
                   provenance |-> "provenance-1"]
    /\ mres = NoResult

-----------------------------------------------------------------------------
(* PartClass: ontology bindings *)

\* an Optional[List[str]] argument: None, or a list
None == [some |-> FALSE, list |-> <<>>]
Some(list) == [some |-> TRUE, list |-> list]

\* the orders in which list(set) may enumerate a set: the order of a Python
\* set of str is not fixed by the language and varies between runs
Perms(S) == {q \in [1..Cardinality(S) -> S] : Range(q) = S}

Keys(d) == {kv[1] : kv \in d}

\* a merge that keeps the old value of a key both dicts hold
DictUpdateKeepOld(old, new) == old \cup {kv \in new : kv[1] \notin Keys(old)}

\* dict.update(new) on dicts held as sets of <<key, value>>
DictUpdate(old, new) == new \cup {kv \in old : kv[1] \notin Keys(new)}

\* bind_ontology that overwrites the lists of an existing binding
BindOntologyOverwrite(obs, ontology_name, class_ids, case_item_ids, metadata) ==
    {(ontology_name :>
        [ontology_name |-> ontology_name,
         class_ids |-> class_ids.list,
         case_item_ids |-> case_item_ids.list,
         metadata |-> metadata]) @@ obs}

\* bind_ontology that extends the lists of an existing binding
BindOntologyExtend(obs, ontology_name, class_ids, case_item_ids, metadata) ==
    IF ontology_name \notin DOMAIN obs
    THEN {(ontology_name :>
             [ontology_name |-> ontology_name,
              class_ids |-> class_ids.list,
              case_item_ids |-> case_item_ids.list,
              metadata |-> metadata]) @@ obs}
    ELSE LET existing == obs[ontology_name]
         IN  {(ontology_name :>
                 [ontology_name |-> ontology_name,
                  class_ids |-> existing.class_ids \o class_ids.list,
                  case_item_ids |-> existing.case_item_ids \o case_item_ids.list,
                  metadata |-> DictUpdate(existing.metadata, metadata)]) @@ obs}

\* bind_ontology whose first call for a name creates an empty binding
BindOntologyCreateEmpty(obs, ontology_name, class_ids, case_item_ids, metadata) ==
    IF ontology_name \notin DOMAIN obs
    THEN {(ontology_name :>
             [ontology_name |-> ontology_name,
              class_ids |-> <<>>,
              case_item_ids |-> <<>>,
              metadata |-> {}]) @@ obs}
    ELSE LET existing == obs[ontology_name]
             cs == IF class_ids.some
                   THEN Perms(Range(existing.class_ids) \cup Range(class_ids.list))
                   ELSE {existing.class_ids}
             is == IF case_item_ids.some
                   THEN Perms(Range(existing.case_item_ids)
                              \cup Range(case_item_ids.list))
                   ELSE {existing.case_item_ids}
         IN  {(ontology_name :>
                 [ontology_name |-> ontology_name,
                  class_ids |-> c,
                  case_item_ids |-> i,
                  metadata |-> DictUpdate(existing.metadata, metadata)]) @@ obs
              : c \in cs, i \in is}

\* bind_ontology(ontology_name, class_ids, case_item_ids, metadata): the values
\* self.ontology_bindings may have afterwards (one per order list(set) may give)
BindOntology(obs, ontology_name, class_ids, case_item_ids, metadata) ==
    IF ontology_name \notin DOMAIN obs
    THEN {(ontology_name :>
             [ontology_name |-> ontology_name,
              class_ids |-> class_ids.list,
              case_item_ids |-> case_item_ids.list,
              metadata |-> metadata]) @@ obs}
    ELSE LET existing == obs[ontology_name]
             cs == IF class_ids.some
                   THEN Perms(Range(existing.class_ids) \cup Range(class_ids.list))
                   ELSE {existing.class_ids}
             is == IF case_item_ids.some
                   THEN Perms(Range(existing.case_item_ids)
                              \cup Range(case_item_ids.list))
                   ELSE {existing.case_item_ids}
         IN  {(ontology_name :>
                 [ontology_name |-> ontology_name,
                  class_ids |-> c,
                  case_item_ids |-> i,
                  metadata |-> DictUpdate(existing.metadata, metadata)]) @@ obs
              : c \in cs, i \in is}

\* get_binding that answers an unbound name with an empty binding
GetBindingDefault(obs, ontology_name) ==
    IF ontology_name \in DOMAIN obs
    THEN [some |-> TRUE, binding |-> obs[ontology_name]]
    ELSE [some |-> TRUE,
          binding |-> [ontology_name |-> ontology_name, class_ids |-> <<>>,
                       case_item_ids |-> <<>>, metadata |-> {}]]

\* get_binding: the binding, or None
GetBinding(obs, ontology_name) ==
    IF ontology_name \in DOMAIN obs
    THEN [some |-> TRUE, binding |-> obs[ontology_name]]
    ELSE [some |-> FALSE,
          binding |-> [ontology_name |-> "", class_ids |-> <<>>,
                       case_item_ids |-> <<>>, metadata |-> {}]]

\* allowed_item_types
AllowedItemTypes(obs, ontology_name) ==
    LET b == GetBinding(obs, ontology_name)
    IN  IF ~b.some THEN <<>> ELSE b.binding.case_item_ids

\* supported_ontologies: the names list(self.ontology_bindings.keys()) holds
SupportedOntologies(obs) == DOMAIN obs

\* ontology names a part is bound to
OntologyNames == {"ECLASS", "ISA-95"}

\* class_ids handed to bind_ontology
ClassIdArgs ==
    {None, Some(<<>>), Some(<<"C1">>), Some(<<"C1", "C1">>),
     Some(<<"C1", "C2">>), Some(<<"C2", "C3">>)}

\* case_item_ids handed to bind_ontology
CaseItemArgs == {None, Some(<<"I1">>), Some(<<"I2", "I1">>)}

\* metadata handed to bind_ontology (None and {} are both kept as {}): the
\* value of "version" is a str, the value of "labels" a nested dict
MetadataArgs ==
    {{},
     {<<"version", "16.0">>},
     {<<"version", "17.0">>},
     {<<"labels", {<<"en", "Pump">>}>>},
     {<<"labels", {<<"de", "Pumpe">>}>>},
     {<<"version", "16.0">>, <<"labels", {<<"en", "Pump">>}>>}}

\* PartClass(...): no binding yet
InitPart ==
    /\ ontology_bindings = <<>>
    /\ bindlog = <<>>
    /\ part_type = "Pump"
    /\ equipment = NoPart

\* part.bind_ontology(ontology_name, class_ids, case_item_ids, metadata)
BindOntologyCall(ontology_name, class_ids, case_item_ids, metadata) ==
    /\ Len(bindlog) < MaxBinds
    /\ ontology_bindings' \in
          BindOntology(ontology_bindings, ontology_name, class_ids,
                       case_item_ids, metadata)
    /\ bindlog' = Append(bindlog, [ontology_name |-> ontology_name,
                                   class_ids |-> class_ids,
                                   case_item_ids |-> case_item_ids,
                                   metadata |-> metadata])
    /\ equipment' = NoPart
    /\ UNCHANGED <<regvars, mapvars, clsvars, buildvars, part_type>>

-----------------------------------------------------------------------------
(* The mapper classes: what their methods do *)

\* ISA95Mapper.validate_mapping, which reads only the schema entry
ISA95ValidateMapping(schema) ==
    LET errors == IF schema # "ISA-95" THEN <<"Schema mismatch">> ELSE <<>>
    IN  [exc |-> "none", ok |-> Len(errors) = 0, errors |-> errors]

\* the methods map_dpp calls on an instance of cls: the layer methods of the
\* three classes return and do not raise; the test mappers' validate_mapping
\* returns (True, [])
ClassBehaviour(cls) ==
    [schema |-> ClassTable[cls].schema,
     version |-> ClassTable[cls].version,
     context |-> ClassTable[cls].context,
     layer |-> [l \in LayerSet |-> "none"],
     validate |-> IF cls = "ISA95Mapper"
                  THEN ISA95ValidateMapping(ClassTable[cls].schema)
                  ELSE [exc |-> "none", ok |-> TRUE, errors |-> <<>>]]

\* the table a config file keeps under domain_mappings
DomainMappingsTable ==
    [Pump     |-> [isa95_type_ids |-> <<"T2", "T1">>],
     Valve    |-> [isa95_type_ids |-> <<>>],
     Actuator |-> [isa95_type_ids |-> <<"X1", "X2">>]]

\* self.config.get("domain_mappings", {})
DomainMappings(config) ==
    IF \E kv \in config.items : kv[1] = "domain_mappings"
    THEN DomainMappingsTable
    ELSE <<>>

\* a map_part_class that sorts the fallback list before it takes its first id
ISA95MapPartClassSorted(config, part) ==
    LET binding == GetBinding(part.ontology_bindings, "ISA-95")
        bound == IF binding.some /\ Len(binding.binding.class_ids) > 0
                 THEN SomeId(binding.binding.class_ids[1])
                 ELSE NoneId
        domain_mappings == DomainMappings(config)
        isa_types == IF part.type \in DOMAIN domain_mappings
                     THEN Sorted(Range(domain_mappings[part.type].isa95_type_ids))
                     ELSE <<>>
        equipment_class == IF bound.some /\ bound.id # "" THEN bound
                           ELSE IF Len(isa_types) > 0 THEN SomeId(isa_types[1])
                           ELSE bound
    IN  [kind |-> "Equipment",
         ID |-> part.part_id,
         EquipmentClassID |-> equipment_class,
         Description |-> part.name,
         Properties |-> [i \in 1..Len(part.properties) |->
                            [ID |-> part.properties[i][1],
                             Value |-> <<part.properties[i][2]>>]]]

\* ISA95Mapper.map_part_class
ISA95MapPartClass(config, part) ==
    LET binding == GetBinding(part.ontology_bindings, "ISA-95")
        bound == IF binding.some /\ Len(binding.binding.class_ids) > 0
                 THEN SomeId(binding.binding.class_ids[1])
                 ELSE NoneId
        domain_mappings == DomainMappings(config)
        isa_types == IF part.type \in DOMAIN domain_mappings
                     THEN domain_mappings[part.type].isa95_type_ids
                     ELSE <<>>
        equipment_class == IF bound.some /\ bound.id # "" THEN bound
                           ELSE IF Len(isa_types) > 0 THEN SomeId(isa_types[1])
                           ELSE bound
    IN  [kind |-> "Equipment",
         ID |-> part.part_id,
         EquipmentClassID |-> equipment_class,
         Description |-> part.name,
         Properties |-> [i \in 1..Len(part.properties) |->
                            [ID |-> part.properties[i][1],
                             Value |-> <<part.properties[i][2]>>]]]

\* SchemaMapper.map_part_class: asdict(part), of which the fields below are kept
AsDict(part) ==
    [kind |-> "asdict", ID |-> part.part_id, EquipmentClassID |-> NoneId,
     Description |-> part.name, Properties |-> part.properties]

\* mapper.map_part_class(part) for an instance the registry holds
MapPartClass(inst, part) ==
    IF inst.cls = "ISA95Mapper" THEN ISA95MapPartClass(inst.config, part)
    ELSE AsDict(part)

\* the message of the ValueError of SchemaRegistry.map_layers
InvalidLayersMsg(schema, errors) ==
    "Mapped layer data invalid for " \o schema \o ": " \o ListRepr(errors)

\* the body of SchemaRegistry.map_layers after get_mapper
MapLayers(beh, layers) ==
    LET head == <<<<"schema", beh.schema>>, <<"schema_version", beh.version>>,
                  <<"@context", beh.context>>>>
        r == MapLayersFrom(beh, layers, 1, head, <<>>)
    IN  IF r.exc # "none"
        THEN [exc |-> r.exc, msg |-> "", doc |-> NoDoc]
        ELSE IF beh.validate.exc # "none"
        THEN [exc |-> beh.validate.exc, msg |-> "", doc |-> NoDoc]
        ELSE IF ~beh.validate.ok
        THEN [exc |-> "ValueError",
              msg |-> InvalidLayersMsg(beh.schema, beh.validate.errors),
              doc |-> NoDoc]
        ELSE [exc |-> "none", msg |-> "", doc |-> r.doc]

\* str(exc) of a KeyError: the repr of its message, which holds ' and no "
KeyErrorStr(msg) == "\"" \o msg \o "\""

\* the parts handed to map_part (property values are strings)
Parts ==
    {[part_id |-> "P1", name |-> "Feed pump", type |-> "Pump",
      properties |-> <<<<"rated_power", "4 kW">>>>,
      ontology_bindings |-> <<>>],
     [part_id |-> "P2", name |-> "Drain valve", type |-> "Valve",
      properties |-> <<>>,
      ontology_bindings |->
          ("ISA-95" :> [ontology_name |-> "ISA-95",
                        class_ids |-> <<"C2", "C1">>,
                        case_item_ids |-> <<>>, metadata |-> {}])]}

-----------------------------------------------------------------------------
(* The classifiers of eclass_build_mapping.py and isa95_build_mapping.py *)

\* MIN_SCORE of eclass_build_mapping.py
EclassMinScore == 2

\* MIN_SCORE of isa95_build_mapping.py
Isa95MinScore == 1

\* DOMAIN_KEYWORDS of eclass_build_mapping.py, in the order of the dict display
EclassDomainKeywords ==
    <<
     <<"PowerConversion",
       <<"power supply", "power-supply", "power converter",
         "ac/dc converter", "dc/dc converter", "inverter", "rectifier",
         "uninterruptible power supply", "ups", "transformer">>>>,
     <<"EnergyStorage",
       <<"battery", "accumulator", "energy storage", "cell", "capacitor",
         "supercapacitor">>>>,
     <<"Actuator",
       <<"actuator", "drive", "servo", "motion", "positioning",
         "valve actuator">>>>,
     <<"Sensor",
       <<"sensor", "transducer", "measuring device", "detector",
         "measurement", "temperature sensor", "pressure sensor",
         "flow sensor", "position sensor", "vibration sensor">>>>,
     <<"ControlUnit",
       <<"controller", "control unit", "logic controller", "plc",
         "control system", "control device">>>>,
     <<"UserInterface",
       <<"user interface", "operator panel", "display", "hmi",
         "control panel", "keypad">>>>,
     <<"Thermal",
       <<"heating", "cooling", "thermal", "heat exchanger", "radiator",
         "heater", "fan">>>>,
     <<"Fluidics",
       <<"fluid", "hydraulic", "pneumatic", "pump", "valve", "compressor">>>>,
     <<"Structural",
       <<"structural", "frame", "housing", "support", "chassis",
         "enclosure", "bracket">>>>,
     <<"Transmission",
       <<"gear", "gearing", "drive shaft", "drivetrain", "belt drive",
         "chain drive", "coupling", "bearing">>>>,
     <<"Protection",
       <<"protection device", "fuse", "circuit breaker", "breaker",
         "protector", "surge protector", "overcurrent", "overvoltage">>>>,
     <<"Connectivity",
       <<"connector", "plug", "socket", "cable", "terminal block",
         "interface", "bus system">>>>,
     <<"SoftwareModule",
       <<"software", "firmware", "program", "control software",
         "software module">>>>,
     <<"Consumable",
       <<"consumable", "filter", "lubricant", "oil", "grease", "sealant",
         "cleaning agent">>>>,
     <<"Fastener",
       <<"fastener", "screw", "bolt", "nut", "washer", "rivet",
         "anchor bolt">>>>
    >>

\* DOMAIN_KEYWORDS of isa95_build_mapping.py, in the order of the dict display
Isa95DomainKeywords ==
    <<
     <<"PowerConversion",
       <<"transformer", "inverter", "rectifier", "power supply",
         "power-supply", "converter", "converter unit", "ac/dc", "dc/dc",
         "uninterruptible power supply", "ups", "voltage regulator",
         "energy", "power">>>>,
     <<"EnergyStorage",
       <<"battery", "energy storage", "accumulator", "cell",
         "storage tank", "reservoir", "silo", "storage", "storage zone",
         "storage unit">>>>,
     <<"Actuator",
       <<"actuator", "drive", "servo", "motion", "positioning",
         "valve actuator", "controlled element", "mechanical output",
         "execution">>>>,
     <<"Sensor",
       <<"sensor", "transducer", "measuring device", "detector",
         "measurement", "measurement device", "instrument", "test",
         "sample", "quality", "result", "value">>>>,
     <<"ControlUnit",
       <<"controller", "control unit", "control system",
         "control function", "logic controller", "plc",
         "programmable controller", "automation controller", "control",
         "module", "logic", "capability", "process code">>>>,
     <<"UserInterface",
       <<"user interface", "operator", "hmi", "display", "panel",
         "annunciator", "alarm panel", "operator station", "person",
         "personnel", "individual">>>>,
     <<"Thermal",
       <<"heating", "cooling", "thermal", "heat exchanger", "furnace",
         "oven", "kiln", "heater", "cooler", "temperature">>>>,
     <<"Fluidics",
       <<"pump", "compressor", "valve", "pipeline", "pipe", "duct",
         "fluid", "hydraulic", "pneumatic", "liquid", "gas", "flow">>>>,
     <<"Structural",
       <<"structure", "frame", "support", "foundation", "housing",
         "enclosure", "chassis", "platform", "physical asset", "asset",
         "class">>>>,
     <<"Transmission",
       <<"gear", "gearbox", "transmission", "drive train", "belt drive",
         "chain drive", "shaft", "coupling", "bearing", "assembly">>>>,
     <<"Protection",
       <<"protection", "protective", "fuse", "circuit breaker", "breaker",
         "protector", "safety device", "interlock", "safety interlock",
         "safety", "alarm", "alert", "security">>>>,
     <<"Connectivity",
       <<"connector", "connection", "terminal", "terminal block",
         "i/o point", "communication link", "network connection", "bus",
         "fieldbus", "network", "resource network", "interface">>>>,
     <<"SoftwareModule",
       <<"software", "software component", "application", "program",
         "execution logic", "algorithm", "recipe logic", "job", "order",
         "command", "transaction", "dispatch">>>>,
     <<"Consumable",
       <<"consumable", "material", "ingredient", "feedstock",
         "raw material", "lubricant", "cleaning", "consumed", "produced",
         "lot", "sublot", "inventory", "bill of material">>>>,
     <<"Fastener",
       <<"fastener", "bolt", "screw", "nut", "washer", "anchor", "clamp",
         "joint">>>>
    >>

\* a domain_score that counts every occurrence of every keyword
DomainScoreOccurrences(keywords, text, domain) ==
    LET lowered == Lower(text)
        kws == DictGetOr(keywords, domain, <<>>)
    IN  Cardinality({ip \in (1..Len(kws)) \X (1..Len(lowered)) :
                        /\ ip[2] + Len(kws[ip[1]]) - 1 <= Len(lowered)
                        /\ SubSeq(lowered, ip[2], ip[2] + Len(kws[ip[1]]) - 1)
                             = Lower(kws[ip[1]])})

\* a domain_score that does not lowercase the text
DomainScoreCaseSensitive(keywords, text, domain) ==
    LET kws == DictGetOr(keywords, domain, <<>>)
    IN  Cardinality({i \in 1..Len(kws) : Contains(text, Lower(kws[i]))})

\* domain_score: the number of entries of the domain's keyword list that occur
\* in the lowercased text ((text or "") makes None count as "")
DomainScore(keywords, text, domain) ==
    LET lowered == Lower(text)
        kws == DictGetOr(keywords, domain, <<>>)
    IN  Cardinality({i \in 1..Len(kws) : Contains(lowered, Lower(kws[i]))})

\* scores: the domains that score above 0 with their scores, in the order of
\* DOMAIN_KEYWORDS.keys()
Scores(keywords, text) ==
    SelectSeq([i \in 1..Len(keywords) |->
                  <<keywords[i][1], DomainScore(keywords, text, keywords[i][1])>>],
              LAMBDA p : p[2] > 0)

\* the last key of scores that has the greatest value
MaxKeyLast(scores) ==
    scores[CHOOSE i \in 1..Len(scores) :
              /\ \A j \in 1..Len(scores) : scores[j][2] <= scores[i][2]
              /\ \A j \in (i + 1)..Len(scores) : scores[j][2] < scores[i][2]][1]

\* max(scores, key=scores.get): the first key, in the order of the dict, that
\* has the greatest value
MaxKey(scores) ==
    scores[CHOOSE i \in 1..Len(scores) :
              /\ \A j \in 1..Len(scores) : scores[j][2] <= scores[i][2]
              /\ \A j \in 1..(i - 1) : scores[j][2] < scores[i][2]][1]

\* the body shared by classify_domain_for_class and classify_domain
Classify(keywords, min_score, text) ==
    LET scores == Scores(keywords, text)
    IN  IF Len(scores) = 0 THEN NoneId
        ELSE LET best_domain == MaxKey(scores)
                 best_score == DictGet(scores, best_domain)
             IN  IF best_score < min_score THEN NoneId
                 ELSE SomeId(best_domain)

\* eclass_build_mapping.classify_domain_for_class
ClassifyDomainForClass(definition) ==
    Classify(EclassDomainKeywords, EclassMinScore, definition)

\* isa95_build_mapping.classify_domain
ClassifyDomain(description) ==
    Classify(Isa95DomainKeywords, Isa95MinScore, description)

\* the words a description is made of
Fragments ==
    <<"Inverter", "power supply", "BATTERY", "cell", "Heating", "cooling",
      "pump", "pumping", "Valve", "widget">>

\* the descriptions handed to the classifiers: up to MaxWords of the words,
\* separated by blanks
Texts ==
    {Join(" ", SelectSeq(Fragments, LAMBDA w : w \in S)) :
        S \in {T \in SUBSET Range(Fragments) : Cardinality(T) <= MaxWords}}

NoClassified == [by |-> "none", domain |-> NoneId]

NoScored == [by |-> "none", domain |-> "", score |-> 0]

\* the domains handed to domain_score: those of DOMAIN_KEYWORDS and one that
\* is not a key of it
ScoredDomains ==
    Range(DictKeys(EclassDomainKeywords)) \cup Range(DictKeys(Isa95DomainKeywords))
        \cup {"Unknown"}

IdleClassifier ==
    /\ definition_text = ""
    /\ classified = NoClassified
    /\ scored = NoScored

\* the descriptions handed to domain_score: up to MaxScoreWords of the words
ScoreTexts ==
    {Join(" ", SelectSeq(Fragments, LAMBDA w : w \in S)) :
        S \in {T \in SUBSET Range(Fragments) : Cardinality(T) <= MaxScoreWords}}

InitScore ==
    /\ definition_text \in ScoreTexts
    /\ classified = NoClassified
    /\ scored = NoScored

InitClassifier ==
    /\ definition_text \in Texts
    /\ classified = NoClassified
    /\ scored = NoScored

\* domain_score(definition_text, domain), of eclass_build_mapping.py
EclassDomainScoreCall(domain) ==
    /\ scored' = [by |-> "ECLASS", domain |-> domain,
                  score |-> DomainScore(EclassDomainKeywords, definition_text,
                                        domain)]
    /\ UNCHANGED <<regvars, mapvars, partvars, definition_text, classified,
                   buildvars>>

\* domain_score(definition_text, domain), of isa95_build_mapping.py
Isa95DomainScoreCall(domain) ==
    /\ scored' = [by |-> "ISA-95", domain |-> domain,
                  score |-> DomainScore(Isa95DomainKeywords, definition_text,
                                        domain)]
    /\ UNCHANGED <<regvars, mapvars, partvars, definition_text, classified,
                   buildvars>>

\* classify_domain_for_class(definition_text), of eclass_build_mapping.py
ClassifyDomainForClassCall ==
    /\ classified' = [by |-> "ECLASS",
                      domain |-> ClassifyDomainForClass(definition_text)]
    /\ UNCHANGED <<regvars, mapvars, partvars, definition_text, scored,
                   buildvars>>

\* classify_domain(definition_text), of isa95_build_mapping.py
ClassifyDomainCall ==
    /\ classified' = [by |-> "ISA-95", domain |-> ClassifyDomain(definition_text)]
    /\ UNCHANGED <<regvars, mapvars, partvars, definition_text, scored,
                   buildvars>>

-----------------------------------------------------------------------------
(* eclass_build_mapping.py: the scan of the class elements and the mapping *)

CategorizationType == "ontoml:CATEGORIZATION_CLASS_Type"
ItemType == "ontoml:ITEM_CLASS_CASE_OF_Type"

\* the ontoml:class elements the XML files may hold: the id attribute, the
\* xsi:type attribute, the text extract_definition_text gives, and the
\* class_ref attributes of the is_case_of children
ClassElems ==
    {[id |-> "A", type |-> CategorizationType, definition |-> "BATTERY cell",
      case_of |-> <<>>],
     [id |-> "B", type |-> CategorizationType, definition |-> "pump Valve",
      case_of |-> <<>>],
     [id |-> "B", type |-> CategorizationType, definition |-> "pump",
      case_of |-> <<>>],
     [id |-> "X", type |-> ItemType, definition |-> "BATTERY cell",
      case_of |-> <<"A">>],
     [id |-> "Y", type |-> ItemType, definition |-> "pump Valve",
      case_of |-> <<"A", "B">>],
     [id |-> "X", type |-> ItemType, definition |-> "", case_of |-> <<"Y", "">>],
     [id |-> "A", type |-> ItemType, definition |-> "BATTERY cell",
      case_of |-> <<"B">>],
     [id |-> "Y", type |-> CategorizationType, definition |-> "BATTERY cell",
      case_of |-> <<>>],
     [id |-> "Z", type |-> "ontoml:ITEM_CLASS_Type", definition |-> "pump Valve",
      case_of |-> <<>>],
     [id |-> "", type |-> CategorizationType, definition |-> "pump Valve",
      case_of |-> <<>>]}

RECURSIVE AppendCaseOf(_, _, _)
\* for ref in case_refs: case_of_mapping.setdefault(ref, []).append(class_id)
AppendCaseOf(com, case_refs, class_id) ==
    IF Len(case_refs) = 0 THEN com
    ELSE AppendCaseOf(
            DictSet(com, Head(case_refs),
                    Append(DictGetOr(com, Head(case_refs), <<>>), class_id)),
            Tail(case_refs), class_id)

\* domain_for_class of a build that classifies the classes of every type
DomainForClassAnyType(cbi) ==
    LET found == [i \in 1..Len(cbi) |->
                     <<cbi[i][1], ClassifyDomainForClass(cbi[i][2].definition)>>]
    IN  SelectSeq(found, LAMBDA p : p[2].some)

\* build_domain_mapping, first loop: domain_for_class
DomainForClass(cbi) ==
    LET cats == SelectSeq(cbi, LAMBDA kv : kv[2].type = "CATEGORIZATION")
        found == [i \in 1..Len(cats) |->
                     <<cats[i][1], ClassifyDomainForClass(cats[i][2].definition)>>]
    IN  SelectSeq(found, LAMBDA p : p[2].some)

\* build_domain_mapping: the mapping of every domain of DOMAIN_KEYWORDS
BuildDomainMapping(cbi, com) ==
    LET domain_for_class == DomainForClass(cbi)
    IN  [d \in 1..Len(EclassDomainKeywords) |->
            LET domain_class == EclassDomainKeywords[d][1]
                chosen == SelectSeq(domain_for_class,
                                    LAMBDA p : p[2].id = domain_class
                                               /\ DictHas(cbi, p[1]))
                eclass_classes == [i \in 1..Len(chosen) |->
                                      <<chosen[i][1], DictGet(cbi, chosen[i][1])>>]
                selected_base_ids == Range(DictKeys(eclass_classes))
                all_case_items ==
                    UNION {Range(DictGetOr(com, base_id, <<>>)) :
                              base_id \in selected_base_ids}
            IN  <<domain_class,
                  [domain_class |-> domain_class,
                   eclass_class_ids |-> <<>>,
                   eclass_case_item_ids |-> Sorted(all_case_items),
                   eclass_classes |-> eclass_classes]>>]

\* no corpus scan was run
NoScan == [op |-> "none", exc |-> "none", defs |-> <<>>, case_of |-> <<>>,
           written |-> FALSE, total |-> 0, domain_mappings |-> <<>>]

NoCorpus == [kind |-> "none", exists |-> FALSE, files |-> <<>>]

IdleScan ==
    /\ corpus = NoCorpus
    /\ scan = NoScan

IdleBuild ==
    /\ IdleScan
    /\ scanned = <<>>
    /\ classes_by_id = <<>>
    /\ case_of_mapping = <<>>
    /\ part_class_mapping = <<>>

\* parse_eclass_xml, one pass of the loop over the class elements
ScanClass(class_elem) ==
    /\ Len(scanned) < MaxElems
    /\ part_class_mapping = <<>>
    /\ scanned' = Append(scanned, class_elem)
    /\ IF class_elem.id = ""
       THEN UNCHANGED <<classes_by_id, case_of_mapping>>
       ELSE IF EndsWith(class_elem.type, "CATEGORIZATION_CLASS_Type")
       THEN /\ classes_by_id' =
                  DictSet(classes_by_id, class_elem.id,
                          [id |-> class_elem.id, type |-> "CATEGORIZATION",
                           definition |-> class_elem.definition,
                           case_of |-> <<>>])
            /\ UNCHANGED case_of_mapping
       ELSE IF EndsWith(class_elem.type, "ITEM_CLASS_CASE_OF_Type")
       THEN LET case_refs == SelectSeq(class_elem.case_of, LAMBDA ref : ref # "")
            IN  /\ classes_by_id' =
                      DictSet(classes_by_id, class_elem.id,
                              [id |-> class_elem.id, type |-> "ITEM",
                               definition |-> class_elem.definition,
                               case_of |-> case_refs])
                /\ case_of_mapping' =
                      AppendCaseOf(case_of_mapping, case_refs, class_elem.id)
       ELSE UNCHANGED <<classes_by_id, case_of_mapping>>
    /\ UNCHANGED <<regvars, mapvars, partvars, clsvars, part_class_mapping,
                   scanvars>>

\* build_domain_mapping(classes_by_id, case_of_mapping), after the scan
BuildDomainMappingCall ==
    /\ part_class_mapping = <<>>
    /\ part_class_mapping' = BuildDomainMapping(classes_by_id, case_of_mapping)
    /\ UNCHANGED <<regvars, mapvars, partvars, clsvars, scanned, classes_by_id,
                   case_of_mapping, scanvars>>

-----------------------------------------------------------------------------
(* The corpus scans: parse_eclass_xml over XML files, load_all_xsd_definitions
   over XSD files, and the two main functions *)

\* parse_eclass_xml, the body of the loop over the class elements of one file
ParseClassElem(acc, class_elem) ==
    IF class_elem.id = "" THEN acc
    ELSE IF EndsWith(class_elem.type, "CATEGORIZATION_CLASS_Type")
    THEN [acc EXCEPT !.cbi =
             DictSet(acc.cbi, class_elem.id,
                     [id |-> class_elem.id, type |-> "CATEGORIZATION",
                      definition |-> class_elem.definition,
                      case_of |-> <<>>])]
    ELSE IF EndsWith(class_elem.type, "ITEM_CLASS_CASE_OF_Type")
    THEN LET case_refs == SelectSeq(class_elem.case_of, LAMBDA ref : ref # "")
         IN  [cbi |-> DictSet(acc.cbi, class_elem.id,
                              [id |-> class_elem.id, type |-> "ITEM",
                               definition |-> class_elem.definition,
                               case_of |-> case_refs]),
              com |-> AppendCaseOf(acc.com, case_refs, class_elem.id)]
    ELSE acc

RECURSIVE ParseClassElems(_, _)
ParseClassElems(acc, elems) ==
    IF Len(elems) = 0 THEN acc
    ELSE ParseClassElems(ParseClassElem(acc, Head(elems)), Tail(elems))

RECURSIVE ParseEclassXmlFrom(_, _)
\* parse_eclass_xml from the file at the head of xml_files on: ET.parse raises
\* ParseError on a file that is not well-formed, and nothing catches it
ParseEclassXmlFrom(acc, xml_files) ==
    IF Len(xml_files) = 0
    THEN [exc |-> "none", cbi |-> acc.cbi, com |-> acc.com]
    ELSE IF ~Head(xml_files).parses
    THEN [exc |-> "ParseError", cbi |-> <<>>, com |-> <<>>]
    ELSE ParseEclassXmlFrom(ParseClassElems(acc, Head(xml_files).classes),
                            Tail(xml_files))

\* parse_eclass_xml(xml_files)
ParseEclassXml(xml_files) ==
    ParseEclassXmlFrom([cbi |-> <<>>, com |-> <<>>], xml_files)

\* main of eclass_build_mapping.py, up to the yaml.dump: whether the YAML was
\* written, its total_classes and its domain_mappings
EclassMain(xml_files) ==
    IF Len(xml_files) = 0
    THEN [exc |-> "none", written |-> FALSE, total |-> 0,
          domain_mappings |-> <<>>]
    ELSE LET parsed == ParseEclassXml(xml_files)
         IN  IF parsed.exc # "none"
             THEN [exc |-> parsed.exc, written |-> FALSE, total |-> 0,
                   domain_mappings |-> <<>>]
             ELSE [exc |-> "none", written |-> TRUE, total |-> Len(parsed.cbi),
                   domain_mappings |->
                       BuildDomainMapping(parsed.cbi, parsed.com)]

RECURSIVE XsdDefs(_, _, _, _)
\* parse_xsd_file, one of its two loops: the named nodes of one group
XsdDefs(defs, nodes, group, source) ==
    IF Len(nodes) = 0 THEN defs
    ELSE LET node == Head(nodes)
         IN  XsdDefs(IF node.name = "" THEN defs
                     ELSE DictSet(defs, node.name,
                                  [name |-> node.name,
                                   description |-> node.documentation,
                                   group |-> group, source |-> source]),
                     Tail(nodes), group, source)

\* parse_xsd_file(path): {} for a file ET.parse rejects
ParseXsdFile(path) ==
    IF ~path.parses THEN <<>>
    ELSE XsdDefs(XsdDefs(<<>>, path.elements, "Element", path.name),
                 path.complex_types, "ComplexType", path.name)

RECURSIVE DictUpdateSeq(_, _)
\* dict.update on insertion-ordered dicts
DictUpdateSeq(old, new) ==
    IF Len(new) = 0 THEN old
    ELSE DictUpdateSeq(DictSet(old, Head(new)[1], Head(new)[2]), Tail(new))

\* sorted(schema_dir.glob("*.xsd")): the files in the order of their names
SortedPaths(paths) ==
    LET names == Sorted({paths[i].name : i \in 1..Len(paths)})
    IN  [i \in 1..Len(names) |->
            paths[CHOOSE j \in 1..Len(paths) : paths[j].name = names[i]]]

RECURSIVE LoadXsdFrom(_, _)
LoadXsdFrom(all_defs, paths) ==
    IF Len(paths) = 0 THEN all_defs
    ELSE LoadXsdFrom(DictUpdateSeq(all_defs, ParseXsdFile(Head(paths))),
                     Tail(paths))

\* load_all_xsd_definitions(schema_dir)
LoadAllXsdDefinitions(schema_dir) ==
    IF ~schema_dir.exists THEN <<>>
    ELSE LoadXsdFrom(<<>>, SortedPaths(schema_dir.files))

\* build_domain_mapping of isa95_build_mapping.py
Isa95BuildDomainMapping(defs_by_name) ==
    LET found == [i \in 1..Len(defs_by_name) |->
                     <<defs_by_name[i][1],
                       ClassifyDomain(defs_by_name[i][2].description)>>]
        domain_for_type == SelectSeq(found, LAMBDA p : p[2].some)
    IN  [d \in 1..Len(Isa95DomainKeywords) |->
            LET domain_class == Isa95DomainKeywords[d][1]
                chosen == SelectSeq(domain_for_type,
                                    LAMBDA p : p[2].id = domain_class)
            IN  <<domain_class,
                  [domain_class |-> domain_class,
                   isa95_type_ids |-> Sorted({chosen[i][1] : i \in 1..Len(chosen)}),
                   isa95_types |-> [i \in 1..Len(chosen) |->
                                       <<chosen[i][1],
                                         DictGet(defs_by_name, chosen[i][1])>>]]>>]

\* main of isa95_build_mapping.py, up to the yaml.dump
Isa95Main(schema_dir) ==
    LET defs_by_name == LoadAllXsdDefinitions(schema_dir)
    IN  [exc |-> "none", written |-> TRUE, total |-> Len(defs_by_name),
         domain_mappings |-> Isa95BuildDomainMapping(defs_by_name)]

\* the XML files of an ECLASS directory: two that parse and hold classes, one
\* that parses and holds none, one that is not well-formed
XmlFiles ==
    {[name |-> "a.xml", parses |-> TRUE,
      classes |-> <<[id |-> "A", type |-> CategorizationType,
                     definition |-> "BATTERY cell", case_of |-> <<>>],
                    [id |-> "X", type |-> ItemType,
                     definition |-> "BATTERY cell", case_of |-> <<"A">>]>>],
     [name |-> "b.xml", parses |-> TRUE,
      classes |-> <<[id |-> "B", type |-> CategorizationType,
                     definition |-> "pump Valve", case_of |-> <<>>],
                    [id |-> "A", type |-> CategorizationType,
                     definition |-> "pump Valve", case_of |-> <<>>]>>],
     [name |-> "c.xml", parses |-> TRUE, classes |-> <<>>],
     [name |-> "bad.xml", parses |-> FALSE, classes |-> <<>>]}

\* the XSD files of an ISA-95 schema directory
XsdFiles ==
    {[name |-> "A.xsd", parses |-> TRUE,
      elements |-> <<[name |-> "Pump", documentation |-> "pump Valve"],
                     [name |-> "", documentation |-> "BATTERY cell"]>>,
      complex_types |-> <<[name |-> "CellType",
                           documentation |-> "BATTERY cell"]>>],
     [name |-> "B.xsd", parses |-> TRUE,
      elements |-> <<[name |-> "Pump", documentation |-> "widget"]>>,
      complex_types |-> <<[name |-> "Pump", documentation |-> "cooling"]>>],
     [name |-> "C.xsd", parses |-> TRUE, elements |-> <<>>,
      complex_types |-> <<>>],
     [name |-> "bad.xsd", parses |-> FALSE, elements |-> <<>>,
      complex_types |-> <<>>]}

\* the lists of up to MaxDocs distinct files of a set, in every order
FileLists(S) ==
    UNION {{q \in [1..n -> S] : \A i, j \in 1..n : i # j => q[i] # q[j]} :
              n \in 0..MaxDocs}

\* the directories handed to the scans
Corpora ==
    {[kind |-> "xml", exists |-> TRUE, files |-> fs] : fs \in FileLists(XmlFiles)}
    \cup {[kind |-> "xsd", exists |-> TRUE, files |-> fs] :
             fs \in FileLists(XsdFiles)}
    \cup {[kind |-> "xsd", exists |-> FALSE, files |-> <<>>]}

InitScan ==
    /\ corpus \in Corpora
    /\ scan = NoScan
    /\ scanned = <<>>
    /\ classes_by_id = <<>>
    /\ case_of_mapping = <<>>
    /\ part_class_mapping = <<>>

\* parse_eclass_xml(list(ECLASS_DIR.glob("*.xml")))
ParseEclassXmlCall ==
    /\ corpus.kind = "xml"
    /\ LET r == ParseEclassXml(corpus.files)
       IN  scan' = [NoScan EXCEPT !.op = "parse_eclass_xml", !.exc = r.exc,
                                  !.defs = r.cbi, !.case_of = r.com]
    /\ UNCHANGED <<regvars, mapvars, partvars, clsvars, scanned, classes_by_id,
                   case_of_mapping, part_class_mapping, corpus>>

\* main() of eclass_build_mapping.py with ECLASS_DIR the corpus
EclassMainCall ==
    /\ corpus.kind = "xml"
    /\ LET r == EclassMain(corpus.files)
       IN  scan' = [NoScan EXCEPT !.op = "eclass_main", !.exc = r.exc,
                                  !.written = r.written, !.total = r.total,
                                  !.domain_mappings = r.domain_mappings]
    /\ UNCHANGED <<regvars, mapvars, partvars, clsvars, scanned, classes_by_id,
                   case_of_mapping, part_class_mapping, corpus>>

\* load_all_xsd_definitions(ISA95_SCHEMA_DIR)
LoadAllXsdDefinitionsCall ==
    /\ corpus.kind = "xsd"
    /\ scan' = [NoScan EXCEPT !.op = "load_all_xsd_definitions",
                              !.defs = LoadAllXsdDefinitions(corpus)]
    /\ UNCHANGED <<regvars, mapvars, partvars, clsvars, scanned, classes_by_id,
                   case_of_mapping, part_class_mapping, corpus>>

\* main() of isa95_build_mapping.py with ISA95_SCHEMA_DIR the corpus
Isa95MainCall ==
    /\ corpus.kind = "xsd"
    /\ LET r == Isa95Main(corpus)
       IN  scan' = [NoScan EXCEPT !.op = "isa95_main", !.exc = r.exc,
                                  !.written = r.written, !.total = r.total,
                                  !.domain_mappings = r.domain_mappings]
    /\ UNCHANGED <<regvars, mapvars, partvars, clsvars, scanned, classes_by_id,
                   case_of_mapping, part_class_mapping, corpus>>

-----------------------------------------------------------------------------
(* ISA95Mapper.map_dpp on a passport: what it returns, and what it leaves of
   the passport and of the mapper.  A dict attribute of a layer is
   [none, items]: None, or a dict held as a sequence of <<key, value>> *)

PyDict(items) == [none |-> FALSE, items |-> items]
NoneDict == [none |-> TRUE, items |-> <<>>]

\* d.get(k): the value, or None
Get(d, k) == IF DictHas(d, k) THEN SomeId(DictGet(d, k)) ELSE NoneId

\* a or b on Optional[str]
Or(a, b) == IF a.some /\ a.id # "" THEN a ELSE b

\* str(a) inside an f-string
Str(a) == IF a.some THEN a.id ELSE "None"

\* ISA95Mapper.map_identity_layer: the fragment, or the AttributeError of
\* None.get, and the layer afterwards
ISA95MapIdentityLayer(layer) ==
    IF layer.global_ids.none \/ layer.make_model.none
    THEN [exc |-> "AttributeError", out |-> <<>>, layer |-> layer]
    ELSE [exc |-> "none",
          out |-> <<<<"ID", Or(Get(layer.global_ids.items, "gtin"),
                               Get(layer.global_ids.items, "serial"))>>,
                    <<"Description",
                      Str(Get(layer.make_model.items, "brand")) \o " "
                        \o Str(Get(layer.make_model.items, "model"))>>,
                    <<"EquipmentLevel", "Unit">>>>,
          layer |-> layer]

\* a map_part_class that binds the part to the equipment class it found
ISA95PartAfterBinding(config, part) ==
    LET found == ISA95MapPartClass(config, part).EquipmentClassID
    IN  IF ~found.some THEN part
        ELSE [part EXCEPT !.ontology_bindings =
                 CHOOSE obs \in BindOntology(part.ontology_bindings, "ISA-95",
                                             Some(<<found.id>>), None, {}) :
                    TRUE]

\* what ISA95Mapper.map_part_class leaves of the part: it reads get_binding,
\* type, part_id, name and properties.items() and assigns to none of them
ISA95PartAfter(config, part) == part

\* ISA95Mapper.map_structure_layer
ISA95MapStructureLayer(config, layer) ==
    LET mapped_parts == [i \in 1..Len(layer.parts) |->
                            ISA95MapPartClass(config, layer.parts[i])]
    IN  [exc |-> "none",
         out |-> <<<<"Hierarchy", layer.hierarchy>>,
                   <<"NestedEquipment", mapped_parts>>>>,
         layer |-> [layer EXCEPT !.parts =
                       [i \in 1..Len(layer.parts) |->
                           ISA95PartAfter(config, layer.parts[i])]]]

\* ISA95Mapper.map_lifecycle_layer
ISA95MapLifecycleLayer(layer) ==
    IF layer.manufacture.none
    THEN [exc |-> "AttributeError", out |-> <<>>, layer |-> layer]
    ELSE [exc |-> "none",
          out |-> <<<<"WorkOrder", Get(layer.manufacture.items, "lot")>>,
                    <<"ProductionDate", Get(layer.manufacture.items, "date")>>>>,
          layer |-> layer]

\* map_risk_layer, map_sustainability_layer, map_provenance_layer: return {}
ISA95MapEmptyLayer(layer) == [exc |-> "none", out |-> <<>>, layer |-> layer]

\* SchemaMapper.map_dpp run by an ISA95Mapper: the exception or the document,
\* the passport and the mapper afterwards.  The dict display maps the layers
\* in the order of LayerNames and stops at the first exception
ISA95MapDpp(mapper, d) ==
    LET i == ISA95MapIdentityLayer(d.identity)
        s == ISA95MapStructureLayer(mapper.config, d.structure)
        l == ISA95MapLifecycleLayer(d.lifecycle)
        r == ISA95MapEmptyLayer(d.risk)
        u == ISA95MapEmptyLayer(d.sustainability)
        p == ISA95MapEmptyLayer(d.provenance)
        d1 == [d EXCEPT !.identity = i.layer]
        d2 == [d1 EXCEPT !.structure = s.layer]
        d3 == [d2 EXCEPT !.lifecycle = l.layer]
        d6 == [d3 EXCEPT !.risk = r.layer, !.sustainability = u.layer,
                         !.provenance = p.layer]
        schema == ClassTable[mapper.cls].schema
        doc == <<<<"schema", schema>>,
                 <<"schema_version", ClassTable[mapper.cls].version>>,
                 <<"@context", ClassTable[mapper.cls].context>>,
                 <<"identity", i.out>>, <<"structure", s.out>>,
                 <<"lifecycle", l.out>>, <<"risk", r.out>>,
                 <<"sustainability", u.out>>, <<"provenance", p.out>>>>
        v == ISA95ValidateMapping(schema)
    IN  IF i.exc # "none"
        THEN [exc |-> i.exc, doc |-> <<>>, dpp |-> d1, mapper |-> mapper]
        ELSE IF s.exc # "none"
        THEN [exc |-> s.exc, doc |-> <<>>, dpp |-> d2, mapper |-> mapper]
        ELSE IF l.exc # "none"
        THEN [exc |-> l.exc, doc |-> <<>>, dpp |-> d3, mapper |-> mapper]
        ELSE IF ~v.ok
        THEN [exc |-> "ValueError", doc |-> <<>>, dpp |-> d6, mapper |-> mapper]
        ELSE [exc |-> "none", doc |-> doc, dpp |-> d6, mapper |-> mapper]

\* identity layers: with a gtin, with a serial only, with no id, and with
\* global_ids left None
IdentityLayers ==
    {[global_ids |-> PyDict(<<<<"gtin", "0123">>, <<"serial", "S9">>>>),
      make_model |-> PyDict(<<<<"brand", "Acme">>, <<"model", "X1">>>>)],
     [global_ids |-> PyDict(<<<<"serial", "S9">>>>),
      make_model |-> PyDict(<<<<"brand", "Acme">>>>)],
     [global_ids |-> PyDict(<<>>),
      make_model |-> PyDict(<<>>)],
     [global_ids |-> NoneDict,
      make_model |-> PyDict(<<>>)]}

\* structure layers: every list of distinct parts of Parts
StructureLayers ==
    {[hierarchy |-> "Product", parts |-> ps] :
        ps \in {<<>>} \cup {<<a>> : a \in Parts}
               \cup {ab \in Parts \X Parts : ab[1] # ab[2]}}

\* lifecycle layers: with lot and date, with neither, with manufacture None
LifecycleLayers ==
    {[manufacture |-> PyDict(<<<<"lot", "L7">>, <<"date", "2024-05-01">>>>)],
     [manufacture |-> PyDict(<<>>)],
     [manufacture |-> NoneDict]}

\* the passports handed to an ISA95Mapper
Dpps ==
    [identity : IdentityLayers, structure : StructureLayers,
     lifecycle : LifecycleLayers, risk : {"risk-1"},
     sustainability : {"sustainability-1"}, provenance : {"provenance-1"}]

\* ISA95Mapper(config=...) and a passport assembled by the caller
InitIsa95 ==
    /\ mbeh = NoBehaviour
    /\ passport = [identity |-> "identity-1", structure |-> "structure-1",
                   lifecycle |-> "lifecycle-1", risk |-> "risk-1",
                   sustainability |-> "sustainability-1",
                   provenance |-> "provenance-1"]
    /\ mres = NoResult
    /\ isa_mapper \in [id : {1}, cls : {"ISA95Mapper"},
                       config : {EmptyDict, DocA, DocB}]
    /\ held_dpp \in Dpps
    /\ mapped = NoMapped

\* isa_mapper.map_dpp(dpp)
ISA95MapDppCall ==
    LET r == ISA95MapDpp(isa_mapper, held_dpp)
    IN  /\ mapped' = [exc |-> r.exc, doc |-> r.doc]
        /\ held_dpp' = r.dpp
        /\ isa_mapper' = r.mapper
        /\ UNCHANGED <<regvars, mbeh, passport, mres, partvars, clsvars,
                       buildvars>>

-----------------------------------------------------------------------------
(* An ISA95Mapper mapping a part its caller binds to ontologies *)

\* PartClass.type of the parts mapped
PartTypes == {"Pump", "Valve", "Actuator", "Sensor"}

\* the part the caller holds, with the bindings made so far
HeldPart ==
    [part_id |-> "P1", name |-> "Feed pump", type |-> part_type,
     properties |-> <<<<"rated_power", "4 kW">>>>,
     ontology_bindings |-> ontology_bindings]

InitEquip ==
    /\ mbeh = NoBehaviour
    /\ passport = [identity |-> "identity-1", structure |-> "structure-1",
                   lifecycle |-> "lifecycle-1", risk |-> "risk-1",
                   sustainability |-> "sustainability-1",
                   provenance |-> "provenance-1"]
    /\ mres = NoResult
    /\ isa_mapper \in [id : {1}, cls : {"ISA95Mapper"},
                       config : {EmptyDict, DocA, DocB}]
    /\ held_dpp = <<>>
    /\ mapped = NoMapped
    /\ ontology_bindings = <<>>
    /\ bindlog = <<>>
    /\ part_type \in PartTypes
    /\ equipment = NoPart

\* isa_mapper.map_part_class(part)
ISA95MapPartClassCall ==
    /\ equipment' = ISA95MapPartClass(isa_mapper.config, HeldPart)
    /\ UNCHANGED <<regvars, mapvars, ontology_bindings, bindlog, part_type,
                   clsvars, buildvars>>

-----------------------------------------------------------------------------
(* The registry: initial state and operations *)

\* SchemaRegistry.__init__, with config_dir in any state
InitRegistry ==
    /\ mappers = <<>>
    /\ aliases = <<>>
    /\ instances = <<>>
    /\ configs = <<>>
    /\ files \in [Stubs -> {"missing"}]
    /\ nextId = 0
    /\ nregs = 0
    /\ nfile = 0
    /\ reads = <<>>
    /\ last = NoCall

RECURSIVE SetAliases(_, _, _)
\* for alias in aliases: self._aliases[alias] = name
SetAliases(als, list, name) ==
    IF Len(list) = 0 THEN als
    ELSE SetAliases(DictSet(als, Head(list), name), Tail(list), name)

\* register(mapper_class, aliases)
Register(cls, list) ==
    /\ nregs < MaxRegs
    /\ nregs' = nregs + 1
    /\ IF ~ClassTable[cls].isMapper
       THEN /\ last' = [NoCall EXCEPT !.op = "register", !.name = cls,
                                      !.exc = "TypeError"]
            /\ UNCHANGED <<mappers, aliases>>
       ELSE IF ClassTable[cls].ctorRaises
       THEN /\ last' = [NoCall EXCEPT !.op = "register", !.name = cls,
                                      !.exc = "RuntimeError"]
            /\ UNCHANGED <<mappers, aliases>>
       ELSE LET name == ClassTable[cls].schema
            IN  /\ mappers' = DictSet(mappers, name,
                                      [kind |-> "class", target |-> cls])
                /\ aliases' = SetAliases(aliases, list, name)
                /\ last' = [NoCall EXCEPT !.op = "register", !.name = cls]
    /\ UNCHANGED <<instances, configs, files, nextId, nfile, reads, mapvars, partvars,
                   clsvars, buildvars>>

\* register_lazy(canonical_name, module_path, class_name, aliases)
RegisterLazy(canonical_name, target, list) ==
    /\ nregs < MaxRegs
    /\ nregs' = nregs + 1
    /\ mappers' = DictSet(mappers, canonical_name,
                          [kind |-> "lazy", target |-> target])
    /\ aliases' = SetAliases(aliases, list, canonical_name)
    /\ last' = [NoCall EXCEPT !.op = "register_lazy", !.name = canonical_name]
    /\ UNCHANGED <<instances, configs, files, nextId, nfile, reads, mapvars, partvars,
                   clsvars, buildvars>>

\* _load_config(canonical_name), called on its own
LoadConfigCall(canonical_name) ==
    LET lc == LoadConfig(configs, files, canonical_name)
    IN  /\ configs' = lc.cfgs
        /\ reads' = IF lc.cached THEN reads
                    ELSE Append(reads, <<canonical_name, lc.val>>)
        /\ last' = [NoCall EXCEPT !.op = "_load_config", !.name = canonical_name,
                                  !.exc = lc.exc, !.val = lc.val,
                                  !.cached = lc.cached,
                                  !.path = CfgPath(canonical_name),
                                  !.fst = FileState(files,
                                                    CfgPath(canonical_name))]
        /\ UNCHANGED <<mappers, aliases, instances, files, nextId, nregs, nfile,
                       mapvars, partvars, clsvars, buildvars>>

\* the tables after a lookup that went through get_mapper
AfterGetMapper(r) ==
    /\ r.nid <= MaxInstances
    /\ instances' = r.insts
    /\ configs' = r.cfgs
    /\ reads' = reads \o r.reads
    /\ nextId' = r.nid
    /\ UNCHANGED <<mappers, aliases, files, nregs, nfile, mapvars, partvars,
                   clsvars, buildvars>>

\* get_mapper(name_or_alias, force_reload)
GetMapperCall(name_or_alias, force_reload) ==
    LET r == GetMapper(mappers, aliases, instances, configs, files, nextId,
                       name_or_alias, force_reload)
    IN  /\ AfterGetMapper(r)
        /\ last' = [NoCall EXCEPT !.op = "get_mapper", !.name = name_or_alias,
                                  !.force = force_reload, !.exc = r.exc,
                                  !.msg = r.msg, !.inst = r.inst,
                                  !.cached = r.cached]

\* list_schemas()
ListSchemasCall ==
    /\ last' = [NoCall EXCEPT !.op = "list_schemas", !.list = DictKeys(mappers)]
    /\ UNCHANGED <<mappers, aliases, instances, configs, files, nextId, nregs,
                   nfile, reads, mapvars, partvars, clsvars, buildvars>>

\* list_aliases(canonical_name)
ListAliasesCall(canonical_name) ==
    /\ last' = [NoCall EXCEPT !.op = "list_aliases", !.name = canonical_name,
                              !.list = ListAliases(aliases, canonical_name)]
    /\ UNCHANGED <<mappers, aliases, instances, configs, files, nextId, nregs,
                   nfile, reads, mapvars, partvars, clsvars, buildvars>>

\* info(name_or_alias) without its except clause
InfoCallUncaught(name_or_alias) ==
    LET r == GetMapper(mappers, aliases, instances, configs, files, nextId,
                       name_or_alias, FALSE)
        canonical == ResolveCanonicalName(aliases, name_or_alias)
        call == [NoCall EXCEPT !.op = "info", !.name = name_or_alias]
    IN  /\ AfterGetMapper(r)
        /\ last' = IF r.exc # "none"
                   THEN [call EXCEPT !.exc = r.exc, !.msg = r.msg]
                   ELSE [call EXCEPT !.info =
                           [name |-> ClassTable[r.inst.cls].schema,
                            version |-> ClassTable[r.inst.cls].version,
                            canonical_name |-> canonical,
                            aliases |-> ListAliases(aliases, canonical),
                            mapper_class |-> r.inst.cls,
                            error |-> ""]]

\* info(name_or_alias)
InfoCall(name_or_alias) ==
    LET r == GetMapper(mappers, aliases, instances, configs, files, nextId,
                       name_or_alias, FALSE)
        canonical == ResolveCanonicalName(aliases, name_or_alias)
        call == [NoCall EXCEPT !.op = "info", !.name = name_or_alias]
    IN  /\ AfterGetMapper(r)
        /\ last' = IF r.exc = "KeyError"
                   THEN [call EXCEPT !.info.error = KeyErrorStr(r.msg)]
                   ELSE IF r.exc # "none"
                   THEN [call EXCEPT !.exc = r.exc]
                   ELSE [call EXCEPT !.info =
                           [name |-> ClassTable[r.inst.cls].schema,
                            version |-> ClassTable[r.inst.cls].version,
                            canonical_name |-> canonical,
                            aliases |-> ListAliases(aliases, canonical),
                            mapper_class |-> r.inst.cls,
                            error |-> ""]]

\* map_dpp(name_or_alias, dpp)
MapDppCall(name_or_alias, dpp) ==
    LET r == GetMapper(mappers, aliases, instances, configs, files, nextId,
                       name_or_alias, FALSE)
        call == [NoCall EXCEPT !.op = "map_dpp", !.name = name_or_alias]
    IN  /\ AfterGetMapper(r)
        /\ last' = IF r.exc # "none"
                   THEN [call EXCEPT !.exc = r.exc, !.msg = r.msg]
                   ELSE LET m == MapDpp(ClassBehaviour(r.inst.cls), dpp)
                        IN  [call EXCEPT !.exc = m.exc, !.msg = m.msg,
                                         !.inst = r.inst, !.doc = m.doc]

\* map_part(name_or_alias, part)
MapPartCall(name_or_alias, part) ==
    LET r == GetMapper(mappers, aliases, instances, configs, files, nextId,
                       name_or_alias, FALSE)
        call == [NoCall EXCEPT !.op = "map_part", !.name = name_or_alias,
                               !.arg = part.part_id]
    IN  /\ AfterGetMapper(r)
        /\ last' = IF r.exc # "none"
                   THEN [call EXCEPT !.exc = r.exc, !.msg = r.msg]
                   ELSE [call EXCEPT !.inst = r.inst,
                                     !.part = MapPartClass(r.inst, part)]

\* map_layers(name_or_alias, identity, ..., provenance)
MapLayersCall(name_or_alias, layers) ==
    LET r == GetMapper(mappers, aliases, instances, configs, files, nextId,
                       name_or_alias, FALSE)
        call == [NoCall EXCEPT !.op = "map_layers", !.name = name_or_alias]
    IN  /\ AfterGetMapper(r)
        /\ last' = IF r.exc # "none"
                   THEN [call EXCEPT !.exc = r.exc, !.msg = r.msg]
                   ELSE LET m == MapLayers(ClassBehaviour(r.inst.cls), layers)
                        IN  [call EXCEPT !.exc = m.exc, !.msg = m.msg,
                                         !.inst = r.inst, !.doc = m.doc]

\* mapper.map_dpp(dpp) on a mapper whose methods behave as mbeh says
MapperMapDpp(dpp) ==
    /\ passport' = dpp
    /\ mres' = MapDpp(mbeh, dpp)
    /\ UNCHANGED <<regvars, mbeh, isavars, partvars, clsvars, buildvars>>

\* a file of config_dir is written, damaged or removed from outside
FileChange(stub, st) ==
    /\ nfile < MaxFileChanges
    /\ files[stub] # st
    /\ nfile' = nfile + 1
    /\ files' = [files EXCEPT ![stub] = st]
    /\ UNCHANGED <<mappers, aliases, instances, configs, nextId, nregs, reads,
                   last, mapvars, partvars, clsvars, buildvars>>

-----------------------------------------------------------------------------
(* Specification of the registry *)

\* the passport handed to the registry's map_dpp and map_layers
ThePassport == CHOOSE d \in Passports : d.identity = "identity-1"

Init == InitRegistry /\ IdleMapper /\ InitPart /\ IdleClassifier /\ IdleBuild

Next ==
    \/ \E cls \in RegistryClasses, list \in AliasLists : Register(cls, list)
    \/ \E n \in LazyNames, t \in LazyTargets, list \in AliasLists :
          RegisterLazy(n, t, list)
    \/ \E n \in LookupNames, force \in BOOLEAN : GetMapperCall(n, force)
    \/ \E n \in LookupNames : InfoCall(n)
    \/ ListSchemasCall
    \/ \E n \in LookupNames : ListAliasesCall(n)
    \/ \E n \in LookupNames : MapDppCall(n, ThePassport)
    \/ \E n \in LookupNames, part \in Parts : MapPartCall(n, part)
    \/ \E n \in LookupNames : MapLayersCall(n, ThePassport)

Spec == Init /\ [][Next]_vars

(* Specification of the registry's configuration loading: the files of
   config_dir are in any state at the start and may change under the registry *)

ConfigClasses == {"ISA95Mapper", "RecordingMapper"}

InitConfig ==
    /\ mappers = <<>>
    /\ aliases = <<>>
    /\ instances = <<>>
    /\ configs = <<>>
    /\ files \in [Stubs -> FileStates]
    /\ nextId = 0
    /\ nregs = 0
    /\ nfile = 0
    /\ reads = <<>>
    /\ last = NoCall

NextConfig ==
    \/ \E cls \in ConfigClasses : Register(cls, <<>>)
    \/ \E n \in LoadNames : LoadConfigCall(n)
    \/ \E n \in LoadNames, force \in BOOLEAN : GetMapperCall(n, force)
    \/ \E stub \in Stubs, st \in FileStates : FileChange(stub, st)

ConfigInit ==
    InitConfig /\ IdleMapper /\ InitPart /\ IdleClassifier /\ IdleBuild

SpecConfig == ConfigInit /\ [][NextConfig]_vars

(* Specification of one mapper, whose methods behave in any of the ways of
   Behaviours, and the passports it is handed *)

InitMapper ==
    /\ IdleIsa95
    /\ mbeh \in Behaviours
    /\ passport = ThePassport
    /\ mres = NoResult

NextMapper == \E dpp \in Passports : MapperMapDpp(dpp)

MapperInit ==
    InitRegistry /\ InitMapper /\ InitPart /\ IdleClassifier /\ IdleBuild

SpecMapper == MapperInit /\ [][NextMapper]_vars

(* Specification of a part and its bindings *)

NextPart ==
    \E o \in OntologyNames, c \in ClassIdArgs, i \in CaseItemArgs,
       m \in MetadataArgs : BindOntologyCall(o, c, i, m)

PartInit ==
    InitRegistry /\ IdleMapper /\ InitPart /\ IdleClassifier /\ IdleBuild

SpecPart == PartInit /\ [][NextPart]_vars

(* Specification of the two classifiers *)

NextClassify ==
    \/ ClassifyDomainForClassCall
    \/ ClassifyDomainCall

ClassifyInit ==
    InitRegistry /\ IdleMapper /\ InitPart /\ InitClassifier /\ IdleBuild

SpecClassify == ClassifyInit /\ [][NextClassify]_vars

(* Specification of the two domain_score functions *)

NextScore ==
    \/ \E domain \in ScoredDomains : EclassDomainScoreCall(domain)
    \/ \E domain \in ScoredDomains : Isa95DomainScoreCall(domain)

ScoreInit ==
    InitRegistry /\ IdleMapper /\ InitPart /\ InitScore /\ IdleBuild

SpecScore == ScoreInit /\ [][NextScore]_vars

(* Specification of the ECLASS mapping build *)

NextBuild ==
    \/ \E class_elem \in ClassElems : ScanClass(class_elem)
    \/ BuildDomainMappingCall

BuildInit ==
    InitRegistry /\ IdleMapper /\ InitPart /\ IdleClassifier /\ IdleBuild

SpecBuild == BuildInit /\ [][NextBuild]_vars

(* Specification of the registry handed classes and loaders that fail *)

\* classes handed to register
FailClasses == {"ISA95Mapper", "NotAMapper", "FailingMapper"}

\* what the lazy loaders import
FailTargets == {"ISA95Mapper", "NotAMapper", "NoModule", "NoClass",
                "FailingMapper"}

NextFail ==
    \/ \E cls \in FailClasses, list \in {<<>>, <<"ec">>} : Register(cls, list)
    \/ \E n \in LazyNames, t \in FailTargets, list \in {<<>>, <<"ec">>} :
          RegisterLazy(n, t, list)
    \/ \E n \in LookupNames, force \in BOOLEAN : GetMapperCall(n, force)

FailInit == InitRegistry /\ IdleMapper /\ InitPart /\ IdleClassifier /\ IdleBuild

SpecFail == FailInit /\ [][NextFail]_vars

(* Specification of an ISA95Mapper mapping a part as its bindings grow *)

NextEquip ==
    \/ \E o \in OntologyNames, c \in ClassIdArgs :
           BindOntologyCall(o, c, None, {})
    \/ ISA95MapPartClassCall

EquipInit ==
    InitRegistry /\ InitEquip /\ IdleClassifier /\ IdleBuild

SpecEquip == EquipInit /\ [][NextEquip]_vars

(* Specification of the corpus scans *)

NextScan ==
    \/ ParseEclassXmlCall
    \/ EclassMainCall
    \/ LoadAllXsdDefinitionsCall
    \/ Isa95MainCall

ScanInit ==
    InitRegistry /\ IdleMapper /\ InitPart /\ IdleClassifier /\ InitScan

SpecScan == ScanInit /\ [][NextScan]_vars

(* Specification of an ISA95Mapper mapping the passport its caller holds *)

NextIsa95 == ISA95MapDppCall

Isa95Init ==
    InitRegistry /\ InitIsa95 /\ InitPart /\ IdleClassifier /\ IdleBuild

SpecIsa95 == Isa95Init /\ [][NextIsa95]_vars

-----------------------------------------------------------------------------
(* Claims about a part's bindings *)

\* the bind_ontology calls made so far for one ontology name
CallsFor(o) == SelectSeq(bindlog, LAMBDA c : c.ontology_name = o)

NoRepeat(list) == \A i, j \in DOMAIN list : i # j => list[i] # list[j]

\* class_ids sets a part can end with after bind_ontology(o, A) and then
\* bind_ontology(o, B) on a part not yet bound to o
TwoBindsClassIds(o, first, second) ==
    {Range(r2[o].class_ids) :
        r2 \in UNION {BindOntology(r1, o, second.class_ids,
                                   second.case_item_ids, second.metadata) :
                      r1 \in BindOntology(<<>>, o, first.class_ids,
                                          first.case_item_ids, first.metadata)}}

TwoBindsCaseItemIds(o, first, second) ==
    {Range(r2[o].case_item_ids) :
        r2 \in UNION {BindOntology(r1, o, second.class_ids,
                                   second.case_item_ids, second.metadata) :
                      r1 \in BindOntology(<<>>, o, first.class_ids,
                                          first.case_item_ids, first.metadata)}}

\* C2: after two bind_ontology calls for one ontology name with class_ids lists
\* A and B, the binding's class_ids holds exactly the elements of A and of B,
\* each once, and binding B before A gives the same collection; likewise for
\* case_item_ids.
C2_BindTwiceIsUnion ==
    \A o \in OntologyNames :
        LET calls == CallsFor(o)
        IN  Len(calls) = 2 =>
              /\ (calls[1].class_ids.some /\ calls[2].class_ids.some) =>
                    /\ Range(ontology_bindings[o].class_ids)
                         = Range(calls[1].class_ids.list)
                           \cup Range(calls[2].class_ids.list)
                    /\ NoRepeat(ontology_bindings[o].class_ids)
                    /\ TwoBindsClassIds(o, calls[2], calls[1])
                         = {Range(ontology_bindings[o].class_ids)}
              /\ (calls[1].case_item_ids.some /\ calls[2].case_item_ids.some) =>
                    /\ Range(ontology_bindings[o].case_item_ids)
                         = Range(calls[1].case_item_ids.list)
                           \cup Range(calls[2].case_item_ids.list)
                    /\ NoRepeat(ontology_bindings[o].case_item_ids)
                    /\ TwoBindsCaseItemIds(o, calls[2], calls[1])
                         = {Range(ontology_bindings[o].case_item_ids)}

\* two overlapping lists were bound, class ids and case items alike
C2_Witness ==
    LET calls == CallsFor("ECLASS")
    IN  /\ Len(calls) = 2
        /\ calls[1].class_ids = Some(<<"C1", "C2">>)
        /\ calls[2].class_ids = Some(<<"C2", "C3">>)
        /\ calls[1].case_item_ids = Some(<<"I1">>)
        /\ calls[2].case_item_ids = Some(<<"I2", "I1">>)
        /\ ontology_bindings["ECLASS"].class_ids = <<"C3", "C1", "C2">>
        /\ Range(ontology_bindings["ECLASS"].case_item_ids) = {"I1", "I2"}

-----------------------------------------------------------------------------
(* Claims about SchemaMapper.map_dpp *)

NineKeys ==
    {"schema", "schema_version", "@context", "identity", "structure",
     "lifecycle", "risk", "sustainability", "provenance"}

\* no map_<layer>_layer of the mapper raises
AllLayersMap == \A l \in LayerSet : mbeh.layer[l] = "none"

\* validate_mapping is reached and returns (True, errors)
ReportsValid ==
    AllLayersMap /\ mbeh.validate.exc = "none" /\ mbeh.validate.ok

\* validate_mapping is reached and returns (False, errors)
ReportsInvalid ==
    AllLayersMap /\ mbeh.validate.exc = "none" /\ ~mbeh.validate.ok

\* C3: whenever validate_mapping reports valid, map_dpp returns a document
\* whose keys are exactly the nine keys, each layer entry is the fragment the
\* corresponding map_<layer>_layer call returned for that layer of the
\* passport, and the last call made was validate_mapping on that document.
C3_MapDppDocument ==
    (mres.exc # "pending" /\ ReportsValid) =>
        /\ mres.exc = "none"
        /\ Len(mres.doc) = 9
        /\ Range(DictKeys(mres.doc)) = NineKeys
        /\ \A i \in 1..Len(LayerNames) :
              LET layer == LayerNames[i]
                  m == "map_" \o layer \o "_layer"
              IN  /\ mres.calls[i] = [m |-> m, arg |-> <<passport[layer]>>]
                  /\ DictGet(mres.doc, layer) = [by |-> m, of |-> passport[layer]]
        /\ Len(mres.calls) = Len(LayerNames) + 1
        /\ mres.calls[Len(mres.calls)]
             = [m |-> "validate_mapping", arg |-> mres.doc]

\* a valid mapping of the second passport was returned
C3_Witness ==
    /\ ReportsValid
    /\ mres.exc = "none"
    /\ passport.identity = "identity-2"
    /\ DictGet(mres.doc, "risk") = [by |-> "map_risk_layer", of |-> "risk-2"]

\* C4: if validate_mapping returns (False, errors), map_dpp returns no
\* document and raises a ValueError whose message contains every string of
\* errors.
C4_InvalidRaisesWithAllErrors ==
    (mres.exc # "pending" /\ ReportsInvalid) =>
        /\ mres.exc = "ValueError"
        /\ mres.doc = NoDoc
        /\ \A i \in 1..Len(mbeh.validate.errors) :
              Contains(mres.msg, mbeh.validate.errors[i])

\* two different errors were reported and both are in the message
C4_Witness ==
    /\ ReportsInvalid
    /\ mbeh.validate.errors = <<"Schema mismatch", "ID missing">>
    /\ mres.exc = "ValueError"
    /\ mres.msg = "Validation failed: Schema mismatch; ID missing"

\* the first layer, in mapping order, whose map_<layer>_layer raises
FirstFailing ==
    CHOOSE i \in 1..Len(LayerNames) :
        /\ mbeh.layer[LayerNames[i]] # "none"
        /\ \A j \in 1..(i - 1) : mbeh.layer[LayerNames[j]] = "none"

\* C6: an exception raised by a map_<layer>_layer call or by validate_mapping
\* reaches the caller of map_dpp as that exception; no document is returned,
\* the layers after the failing one are not mapped and validate_mapping is not
\* called after a failed layer mapping.
C6_ExceptionsPropagate ==
    mres.exc # "pending" =>
        /\ ~AllLayersMap =>
              /\ mres.exc = mbeh.layer[LayerNames[FirstFailing]]
              /\ mres.doc = NoDoc
              /\ Len(mres.calls) = FirstFailing
              /\ \A i \in 1..Len(mres.calls) :
                    mres.calls[i].m = "map_" \o LayerNames[i] \o "_layer"
        /\ (AllLayersMap /\ mbeh.validate.exc # "none") =>
              /\ mres.exc = mbeh.validate.exc
              /\ mres.doc = NoDoc

\* the lifecycle mapping raised after two layers were mapped, though a later
\* layer would have raised too
C6_Witness ==
    /\ mbeh.layer["identity"] = "none"
    /\ mbeh.layer["structure"] = "none"
    /\ mbeh.layer["lifecycle"] = "LayerError"
    /\ mbeh.layer["provenance"] = "LayerError"
    /\ mres.exc = "LayerError"
    /\ Len(mres.calls) = 3

-----------------------------------------------------------------------------
(* Claims about the registry *)

\* the lookups that raise what get_mapper raises
RaisingLookups == {"get_mapper", "map_dpp", "map_part"}

\* n is neither a registered canonical name nor an alias of one
Unknown(n) ==
    /\ ~DictHas(mappers, n)
    /\ ~(DictHas(aliases, n) /\ DictHas(mappers, DictGet(aliases, n)))

\* C5: get_mapper, map_dpp or map_part with a string that is neither a
\* registered canonical name nor an alias of one fails with a KeyError whose
\* message lists every canonical name registered at that moment.
C5_UnknownNameKeyError ==
    (last.op \in RaisingLookups /\ Unknown(last.name)) =>
        /\ last.exc = "KeyError"
        /\ \A i \in 1..Len(mappers) :
              Contains(last.msg, "'" \o mappers[i][1] \o "'")
        /\ Contains(last.msg, "Available: " \o ListRepr(DictKeys(mappers)))

\* map_part failed on an unknown name while two schemas were registered
C5_Witness ==
    /\ last.op = "map_part"
    /\ last.name = "nope"
    /\ last.exc = "KeyError"
    /\ Len(mappers) = 2
    /\ last.msg = "Schema 'nope' not registered. Available: ['ECLASS', 'ISA-95']"

\* n names the registered schema c: it is c, or an alias of c
NamesSchema(n, c) ==
    /\ DictHas(mappers, c)
    /\ \/ n = c
       \/ DictHas(aliases, n) /\ DictGet(aliases, n) = c

\* C1: of two get_mapper calls in a row that name the same registered schema,
\* by its canonical name or by any alias of it, the second, made without
\* force_reload, returns the instance the first returned.
C1_GetMapperIdempotent ==
    [][(/\ last.op = "get_mapper" /\ last.exc = "none"
        /\ last'.op = "get_mapper" /\ last'.exc = "none"
        /\ ~last'.force
        /\ \E i \in 1..Len(mappers) :
              /\ NamesSchema(last.name, mappers[i][1])
              /\ NamesSchema(last'.name, mappers[i][1]))
       => last'.inst = last.inst]_vars

Lookups == {"get_mapper", "info", "map_dpp", "map_part", "map_layers"}

\* C10: a lookup through an alias gives the same result as the same lookup
\* through the alias's canonical name made right after it: the same mapper
\* instance, info, document or part representation, or the same exception.
C10_AliasSameAsCanonical ==
    [][(/\ last.op \in Lookups
        /\ last'.op = last.op
        /\ last'.arg = last.arg
        /\ ~last.force /\ ~last'.force
        /\ DictHas(aliases, last.name)
        /\ last'.name = DictGet(aliases, last.name))
       => /\ last'.exc = last.exc
          /\ last'.inst = last.inst
          /\ last'.info = last.info
          /\ last'.doc = last.doc
          /\ last'.part = last.part]_vars

-----------------------------------------------------------------------------
(* Claims about the configuration cache *)

Unusable == {"missing", "unreadable", "malformed"}

\* C7 as stated: _load_config never raises, and returns an empty configuration
\* when the file is missing and when it cannot be read or parsed.
C7_EmptyWheneverFileUnusable ==
    last.op = "_load_config" =>
        /\ last.exc = "none"
        /\ last.fst \in Unusable => last.val = EmptyDict

\* C7: _load_config never raises; when no configuration is cached for the
\* name it returns an empty configuration if the file is missing or cannot be
\* read or parsed; when one is cached it returns the cached configuration,
\* whatever the state of the file.
C7_LoadConfigNeverRaises ==
    last.op = "_load_config" =>
        /\ last.exc = "none"
        /\ (~last.cached /\ last.fst \in Unusable) => last.val = EmptyDict
        /\ last.name \in DOMAIN configs
        /\ configs[last.name] = last.val

\* the first load of a name whose file does not parse gave {}
C7_Witness ==
    /\ last.op = "_load_config"
    /\ last.fst = "malformed"
    /\ ~last.cached
    /\ last.exc = "none"
    /\ last.val = EmptyDict

-----------------------------------------------------------------------------
(* Claims about the classifiers *)

\* the keyword dictionary and MIN_SCORE of the classifier called last
KeywordsOf(by) == IF by = "ECLASS" THEN EclassDomainKeywords ELSE Isa95DomainKeywords
MinScoreOf(by) == IF by = "ECLASS" THEN EclassMinScore ELSE Isa95MinScore

\* C8: classify returns unclassified when every domain scores zero or the
\* greatest score is below MIN_SCORE (2 for ECLASS, 1 for ISA-95); otherwise it
\* returns a domain with the greatest score, and of several such domains the
\* one that comes first in the keyword dictionary.
C8_ClassifyPicksFirstMax ==
    classified.by # "none" =>
        LET keywords == KeywordsOf(classified.by)
            score == [i \in 1..Len(keywords) |->
                         DomainScore(keywords, definition_text, keywords[i][1])]
            best == CHOOSE m \in Range(score) : \A i \in DOMAIN score : score[i] <= m
        IN  IF best = 0 \/ best < MinScoreOf(classified.by)
            THEN classified.domain = NoneId
            ELSE /\ classified.domain.some
                 /\ \E i \in DOMAIN score :
                       /\ keywords[i][1] = classified.domain.id
                       /\ score[i] = best
                       /\ \A j \in 1..(i - 1) : score[j] < best

\* PowerConversion and EnergyStorage both score 2 and the ECLASS classifier
\* returned PowerConversion, the earlier in the dictionary and the later in
\* the alphabet
C8_Witness ==
    /\ definition_text = "Inverter power supply BATTERY cell"
    /\ DomainScore(EclassDomainKeywords, definition_text, "PowerConversion") = 2
    /\ DomainScore(EclassDomainKeywords, definition_text, "EnergyStorage") = 2
    /\ classified = [by |-> "ECLASS", domain |-> SomeId("PowerConversion")]

-----------------------------------------------------------------------------
(* Claims about the ECLASS mapping build *)

\* the class elements of the scan that parse_eclass_xml records
Recorded(e) ==
    /\ e.id # ""
    /\ \/ EndsWith(e.type, "CATEGORIZATION_CLASS_Type")
       \/ EndsWith(e.type, "ITEM_CLASS_CASE_OF_Type")

\* the element that describes an identifier: the last recorded one with that id
Describes(i, id) ==
    /\ Recorded(scanned[i])
    /\ scanned[i].id = id
    /\ \A j \in (i + 1)..Len(scanned) : ~(Recorded(scanned[j]) /\ scanned[j].id = id)

\* the domain each scanned element's definition text classifies into
DomainOfText == [k \in 1..Len(scanned) |-> ClassifyDomainForClass(scanned[k].definition)]

\* the categorization identifiers whose definition text classifies into
\* domain, given the domain of each element's text
CategorizationIdsOf(domain, of_text) ==
    {scanned[i].id : i \in
        {k \in 1..Len(scanned) :
            /\ Describes(k, scanned[k].id)
            /\ EndsWith(scanned[k].type, "CATEGORIZATION_CLASS_Type")
            /\ of_text[k] = SomeId(domain)}}

\* the item elements that declare a case-of one of the identifiers of bases
ItemsCaseOf(bases) ==
    {scanned[i].id : i \in
        {k \in 1..Len(scanned) :
            /\ scanned[k].id # ""
            /\ EndsWith(scanned[k].type, "ITEM_CLASS_CASE_OF_Type")
            /\ \E r \in 1..Len(scanned[k].case_of) : scanned[k].case_of[r] \in bases}}

\* C9: in the ECLASS build_domain_mapping only categorization identifiers are
\* classified from their definition text, and for every domain the item
\* identifiers assigned to it are exactly the items that declare themselves a
\* case-of a categorization identifier classified into that domain.
C9_ItemsAreOneHopUnion ==
    part_class_mapping # <<>> =>
        \A of_text \in {DomainOfText} :
            /\ Len(part_class_mapping) = Len(EclassDomainKeywords)
            /\ \A d \in 1..Len(part_class_mapping) :
                  LET domain == EclassDomainKeywords[d][1]
                      mapping == part_class_mapping[d][2]
                      bases == CategorizationIdsOf(domain, of_text)
                  IN  /\ part_class_mapping[d][1] = domain
                      /\ Range(DictKeys(mapping.eclass_classes)) = bases
                      /\ Range(mapping.eclass_case_item_ids) = ItemsCaseOf(bases)

\* Y is a case-of A and X a case-of Y only; A is classified into EnergyStorage,
\* which gets Y and not X, though X's own text would classify there too
C9_Witness ==
    /\ Len(scanned) = 3
    /\ scanned[1] = [id |-> "A", type |-> CategorizationType,
                     definition |-> "BATTERY cell", case_of |-> <<>>]
    /\ scanned[2].id = "Y" /\ scanned[2].case_of = <<"A", "B">>
    /\ scanned[3].id = "X" /\ scanned[3].case_of = <<"Y", "">>
    /\ part_class_mapping # <<>>
    /\ DictGet(part_class_mapping, "EnergyStorage").eclass_case_item_ids = <<"Y">>
    /\ DictKeys(DictGet(part_class_mapping, "EnergyStorage").eclass_classes) = <<"A">>
    /\ \A d \in 1..Len(part_class_mapping) :
          "X" \notin Range(part_class_mapping[d][2].eclass_case_item_ids)

-----------------------------------------------------------------------------
(* Claims about registering classes that are not SchemaMappers *)

\* the name the last call was given resolves to a lazy registration whose
\* import finds a class that is not a SchemaMapper
ResolvesToLazyNonMapper ==
    LET canonical == ResolveCanonicalName(aliases, last.name)
    IN  /\ DictHas(mappers, canonical)
        /\ DictGet(mappers, canonical).kind = "lazy"
        /\ DictGet(mappers, canonical).target \in ClassNames
        /\ ~ClassTable[DictGet(mappers, canonical).target].isMapper

\* the last lookup had to create an instance: it forced a reload, or it left
\* no instance cached under the name it resolved to
HadToCreate ==
    \/ last.force
    \/ ResolveCanonicalName(aliases, last.name) \notin DOMAIN instances

\* C11: register of a class that is not a SchemaMapper raises TypeError; a
\* lookup that resolves a lazy registration of such a class raises TypeError;
\* no instance of such a class is ever returned or cached.
C11_NonMapperTypeError ==
    /\ (last.op = "register" /\ ~ClassTable[last.name].isMapper) =>
           last.exc = "TypeError"
    /\ (last.op \in Lookups /\ ResolvesToLazyNonMapper /\ HadToCreate) =>
           /\ last.exc = "TypeError"
           /\ last.inst = NoInstance
    /\ \A c \in DOMAIN instances : ClassTable[instances[c].cls].isMapper
    /\ last.inst # NoInstance => ClassTable[last.inst.cls].isMapper

\* get_mapper through an alias of a lazy registration of a class that is not a
\* SchemaMapper raised TypeError and cached nothing
C11_Witness ==
    /\ last.op = "get_mapper"
    /\ last.name = "ec"
    /\ ResolvesToLazyNonMapper
    /\ last.exc = "TypeError"
    /\ instances = <<>>

-----------------------------------------------------------------------------
(* Claims about info *)

\* C12: info with a name that is neither registered nor an alias of a
\* registered schema does not raise and returns a map whose only entry is an
\* error; get_mapper with such a name raises KeyError.
C12_InfoUnknownReturnsError ==
    /\ (last.op = "info" /\ Unknown(last.name)) =>
           /\ last.exc = "none"
           /\ last.info.error # ""
           /\ Contains(last.info.error, "'" \o last.name \o "' not registered")
           /\ last.info = [NoInfo EXCEPT !.error = last.info.error]
    /\ (last.op = "get_mapper" /\ Unknown(last.name)) =>
           /\ last.exc = "KeyError"
           /\ last.inst = NoInstance

\* info answered an unknown name with an error entry while a schema was
\* registered
C12_Witness ==
    /\ last.op = "info"
    /\ last.name = "nope"
    /\ Len(mappers) > 0
    /\ last.exc = "none"
    /\ last.info.error # ""


ReadAccessors == {"list_schemas", "list_aliases", "info"}

\* C13: list_schemas, list_aliases and info leave the factory table, the alias
\* table, the config cache and the instance cache as they were.
C13_ReadAccessorsChangeNothing ==
    [][last'.op \in ReadAccessors =>
          UNCHANGED <<mappers, aliases, configs, instances>>]_vars

-----------------------------------------------------------------------------
(* Claims about the one-shot config cache *)

\* the canonical names whose configuration was taken from config_dir, in order
ReadNames == [i \in 1..Len(reads) |-> reads[i][1]]

\* the configuration the first load of canonical name n took from config_dir
FirstLoad(n) == reads[CHOOSE i \in 1..Len(reads) :
                         /\ reads[i][1] = n
                         /\ \A j \in 1..(i - 1) : reads[j][1] # n][2]

\* C14: over _load_config and get_mapper calls, with and without force_reload,
\* and whatever happens to the files, config_dir is consulted at most once for
\* each canonical name, the cache keeps what that first load gave, and every
\* load and every mapper construction gets that configuration.
C14_ConfigCacheOneShot ==
    /\ NoRepeat(ReadNames)
    /\ DOMAIN configs = Range(ReadNames)
    /\ \A n \in DOMAIN configs : configs[n] = FirstLoad(n)
    /\ last.op = "_load_config" =>
           /\ last.name \in Range(ReadNames)
           /\ last.val = FirstLoad(last.name)
    /\ (last.op = "get_mapper" /\ last.exc = "none") =>
           /\ ResolveCanonicalName(aliases, last.name) \in Range(ReadNames)
           /\ last.inst.config =
                  FirstLoad(ResolveCanonicalName(aliases, last.name))

\* the file was rewritten after the first load, and a forced reload of the
\* mapper still got the first configuration
C14_Witness ==
    /\ last.op = "get_mapper"
    /\ last.force
    /\ last.exc = "none"
    /\ nfile = 1
    /\ files[FileStub(last.name)] = "docB"
    /\ last.inst.config = DocA
    /\ Len(reads) = 1

-----------------------------------------------------------------------------
(* Claims about the configuration of cached mappers *)

\* C15: every cached mapper instance is cached under a canonical name whose
\* configuration is cached, was constructed with that configuration, and is
\* of the class registered for a schema; a get_mapper that succeeds returns
\* the instance cached under the canonical name of its argument.
C15_InstanceConfigIsCachedConfig ==
    /\ \A c \in DOMAIN instances :
          /\ c \in DOMAIN configs
          /\ instances[c].config = configs[c]
    /\ (last.op = "get_mapper" /\ last.exc = "none") =>
          LET canonical == ResolveCanonicalName(aliases, last.name)
          IN  /\ canonical \in DOMAIN instances
              /\ instances[canonical] = last.inst
              /\ last.inst.config = configs[canonical]

\* a mapper was constructed with the parsed content of its config file
C15_Witness ==
    /\ last.op = "get_mapper"
    /\ last.exc = "none"
    /\ ~last.cached
    /\ last.name = "ISA-95"
    /\ last.inst.config = DocA
    /\ instances["ISA-95"] = last.inst
    /\ configs["ISA-95"] = DocA

-----------------------------------------------------------------------------
(* Claims about the metadata and the accessors of a part's bindings *)

\* the value dict d holds under key k
ValueOf(d, k) == (CHOOSE kv \in d : kv[1] = k)[2]

\* d holds one value under each of its keys
IsDict(d) == \A kv1, kv2 \in d : kv1[1] = kv2[1] => kv1 = kv2

\* C16: after a second bind_ontology for a bound ontology name, every key of
\* the new metadata holds the new value, whole, also when the value is a
\* nested dict, every key only the old metadata held keeps its old value, and
\* the binding holds no other key.
C16_MetadataShallowMerge ==
    \A o \in OntologyNames :
        LET calls == CallsFor(o)
        IN  Len(calls) = 2 =>
              LET old == calls[1].metadata
                  new == calls[2].metadata
                  now == ontology_bindings[o].metadata
              IN  /\ IsDict(now)
                  /\ Keys(now) = Keys(old) \cup Keys(new)
                  /\ \A k \in Keys(new) : ValueOf(now, k) = ValueOf(new, k)
                  /\ \A k \in Keys(old) \ Keys(new) :
                        ValueOf(now, k) = ValueOf(old, k)

\* a second binding replaced a nested dict wholesale and left the key it did
\* not name alone
C16_Witness ==
    LET calls == CallsFor("ECLASS")
    IN  /\ Len(calls) = 2
        /\ calls[1].metadata = {<<"version", "16.0">>, <<"labels", {<<"en", "Pump">>}>>}
        /\ calls[2].metadata = {<<"labels", {<<"de", "Pumpe">>}>>}
        /\ ontology_bindings["ECLASS"].metadata
             = {<<"version", "16.0">>, <<"labels", {<<"de", "Pumpe">>}>>}


\* the list an Optional[List[str]] argument stands for: None stands for []
ListOf(arg) == IF arg.some THEN arg.list ELSE <<>>

\* binding b holds the same class ids, case items and metadata as binding a
SameBinding(a, b) ==
    /\ Range(a.class_ids) = Range(b.class_ids)
    /\ Range(a.case_item_ids) = Range(b.case_item_ids)
    /\ a.metadata = b.metadata

C18_UnboundAndSupported ==
    /\ \A o \in OntologyNames \cup {"MyCompanySchema"} :
          IF Len(CallsFor(o)) = 0
          THEN /\ ~GetBinding(ontology_bindings, o).some
               /\ AllowedItemTypes(ontology_bindings, o) = <<>>
          ELSE /\ GetBinding(ontology_bindings, o).some
               /\ GetBinding(ontology_bindings, o).binding.ontology_name = o
               /\ AllowedItemTypes(ontology_bindings, o)
                    = ontology_bindings[o].case_item_ids
    /\ SupportedOntologies(ontology_bindings)
         = {bindlog[i].ontology_name : i \in 1..Len(bindlog)}

\* the part is bound to ECLASS, with case items, and not to ISA-95
C18_Witness ==
    /\ Len(bindlog) = 2
    /\ SupportedOntologies(ontology_bindings) = {"ECLASS"}
    /\ Len(AllowedItemTypes(ontology_bindings, "ECLASS")) = 2
    /\ ~GetBinding(ontology_bindings, "ISA-95").some
    /\ AllowedItemTypes(ontology_bindings, "ISA-95") = <<>>

-----------------------------------------------------------------------------
(* Claims about the passport under mapping *)

\* C19: a map_dpp call of an ISA95Mapper, whether it returns a document or
\* raises, leaves every layer of the passport, every part of its structure
\* layer, every part's ontology bindings, and the mapper's config as they
\* were before the call.
C19_MapDppLeavesPassportAlone ==
    [][mapped'.exc # "pending" =>
          /\ held_dpp' = held_dpp
          /\ \A i \in 1..Len(held_dpp.structure.parts) :
                held_dpp'.structure.parts[i].ontology_bindings
                  = held_dpp.structure.parts[i].ontology_bindings
          /\ isa_mapper'.config = isa_mapper.config]_vars

\* a passport with an unbound part whose type the config maps to an equipment
\* class was mapped to a document that names that class
C19_Witness ==
    /\ mapped.exc = "none"
    /\ isa_mapper.config = DocB
    /\ Len(held_dpp.structure.parts) = 2
    /\ held_dpp.structure.parts[1].ontology_bindings = <<>>
    /\ mapped.doc[5][2][2][2][1].EquipmentClassID = SomeId("T2")

-----------------------------------------------------------------------------
(* Claims about domain_score *)

\* phrase occurs in text at position i, letters compared without their case
OccursAt(text, phrase, i) ==
    /\ i + Len(phrase) - 1 <= Len(text)
    /\ \A j \in 1..Len(phrase) :
          LowerChar(CharAt(text, i + j - 1)) = LowerChar(CharAt(phrase, j))

Occurs(text, phrase) == \E i \in 1..Len(text) : OccursAt(text, phrase, i)

\* the keyword list domain_score looks up: that of the domain, or none
PhrasesOf(by, domain) == DictGetOr(KeywordsOf(by), domain, <<>>)

\* C20: domain_score(text, domain) is the number of distinct phrases of the
\* domain's keyword list that occur in text, letters compared without their
\* case and a phrase counted once however often it occurs; it lies between 0
\* and the length of the list and is 0 for an empty text or an unknown domain.
C20_DomainScoreCountsDistinctPhrases ==
    scored.by # "none" =>
        LET phrases == PhrasesOf(scored.by, scored.domain)
        IN  /\ scored.score
                 = Cardinality({ph \in Range(phrases) :
                                   Occurs(definition_text, ph)})
            /\ scored.score \in 0..Len(phrases)
            /\ definition_text = "" => scored.score = 0
            /\ ~DictHas(KeywordsOf(scored.by), scored.domain) => scored.score = 0

\* a text in which pump occurs twice and, in capitals, valve once scored 2
\* for Fluidics
C20_Witness ==
    /\ definition_text = "pump pumping Valve"
    /\ scored = [by |-> "ECLASS", domain |-> "Fluidics", score |-> 2]


\* c in capitals
UpperChar(c) ==
    IF \E i \in 1..Len(LowerChars) : LowerChars[i] = c
    THEN UpperChars[CHOOSE i \in 1..Len(LowerChars) : LowerChars[i] = c]
    ELSE c

\* s with every letter in capitals
Upper(s) == Join("", [i \in 1..Len(s) |-> UpperChar(CharAt(s, i))])

\* C21: appending an occurrence of a keyword phrase of a domain to a text
\* never decreases domain_score for that domain, and leaves it at 1 or more;
\* the text, the text in capitals and the text in small letters score the
\* same.
C21_ScoreMonotonicCaseInsensitive ==
    scored.by # "none" =>
        LET keywords == KeywordsOf(scored.by)
            phrases == PhrasesOf(scored.by, scored.domain)
        IN  /\ \A i \in 1..Len(phrases) :
                  LET more == DomainScore(keywords,
                                          definition_text \o phrases[i],
                                          scored.domain)
                  IN  more >= scored.score /\ more >= 1
            /\ DomainScore(keywords, Upper(definition_text), scored.domain)
                 = scored.score
            /\ DomainScore(keywords, Lower(definition_text), scored.domain)
                 = scored.score

\* a text of capitals and small letters scored 2 for EnergyStorage
C21_Witness ==
    /\ definition_text = "BATTERY cell"
    /\ Upper(definition_text) # definition_text
    /\ Lower(definition_text) # definition_text
    /\ scored = [by |-> "ISA-95", domain |-> "EnergyStorage", score |-> 2]


-----------------------------------------------------------------------------
(* C22: during a corpus scan a document that fails to parse is skipped and
   does not abort the scan: parse_eclass_xml and load_all_xsd_definitions
   both complete, and the definitions they extract are exactly those of the
   documents that did parse. *)

\* the files of the corpus that parse, in the order of the corpus
ParsingFiles == SelectSeq(corpus.files, LAMBDA f : f.parses)

C22_ScanSkipsUnparsable ==
    /\ scan.op = "parse_eclass_xml" =>
           /\ scan.exc = "none"
           /\ scan.defs = ParseEclassXml(ParsingFiles).cbi
           /\ scan.case_of = ParseEclassXml(ParsingFiles).com
    /\ scan.op = "load_all_xsd_definitions" =>
           /\ scan.exc = "none"
           /\ scan.defs =
                  LoadAllXsdDefinitions([corpus EXCEPT !.files = ParsingFiles])


-----------------------------------------------------------------------------
(* C23: a classifier main run on a corpus directory with no matching files
   does not fail and writes an output whose total count is 0 and whose
   domain_mappings has an entry for each of the 15 domains, every entry with
   empty identifier lists and an empty class or type map. *)

\* a domain_mappings entry with nothing found for its domain
EmptyEntry(entry) ==
    /\ entry[2].domain_class = entry[1]
    /\ \/ /\ DOMAIN entry[2] = {"domain_class", "eclass_class_ids",
                                "eclass_case_item_ids", "eclass_classes"}
          /\ entry[2].eclass_class_ids = <<>>
          /\ entry[2].eclass_case_item_ids = <<>>
          /\ entry[2].eclass_classes = <<>>
       \/ /\ DOMAIN entry[2] = {"domain_class", "isa95_type_ids", "isa95_types"}
          /\ entry[2].isa95_type_ids = <<>>
          /\ entry[2].isa95_types = <<>>

C23_EmptyCorpusEmptyOutput ==
    (scan.op \in {"eclass_main", "isa95_main"} /\ corpus.files = <<>>) =>
        /\ scan.exc = "none"
        /\ scan.written
        /\ scan.total = 0
        /\ Len(scan.domain_mappings) = 15
        /\ \A i \in 1..Len(scan.domain_mappings) :
               EmptyEntry(scan.domain_mappings[i])


-----------------------------------------------------------------------------
(* C24: for a part of type T with no ISA-95 binding, or with a binding that
   has no class ids, map_part_class under a config whose domain_mappings[T]
   holds a non-empty fallback list gives the lowest id of that list as
   EquipmentClassID; a non-empty binding on the part takes precedence over
   the config, and with neither the EquipmentClassID is absent. *)

\* the class ids of the part's ISA-95 binding, <<>> without one
BoundClassIds ==
    IF "ISA-95" \in DOMAIN ontology_bindings
    THEN ontology_bindings["ISA-95"].class_ids
    ELSE <<>>

\* the fallback list the mapper's config holds for the type of the part
FallbackIds ==
    IF /\ \E kv \in isa_mapper.config.items : kv[1] = "domain_mappings"
       /\ part_type \in DOMAIN DomainMappingsTable
    THEN DomainMappingsTable[part_type].isa95_type_ids
    ELSE <<>>

\* min(ids) of a non-empty list of str
Lowest(ids) ==
    CHOOSE x \in Range(ids) : \A y \in Range(ids) : y = x \/ StrLess(x, y)

-----------------------------------------------------------------------------
(* C25: the config file of a canonical name is <stub>_mapping.yml in the
   config directory, stub being the name lowercased with every '-' removed
   (ISA-95 gives isa95_mapping.yml); when that file exists and parses,
   _load_config returns exactly its parsed content. *)

\* the file name the convention gives each canonical name
ConventionalPath(canonical_name) ==
    CASE canonical_name = "ISA-95" -> "isa95_mapping.yml"
      [] canonical_name = "ECLASS" -> "eclass_mapping.yml"

\* states of a file that exists and parses
Parsing == {"null", "docA", "docB"}

-----------------------------------------------------------------------------
(* C26: the registry keeps at most one cached mapper instance per canonical
   name and constructs a new one only when none is cached or the caller
   passes force_reload=True; get_mapper(name, force_reload=True) constructs a
   fresh instance distinct from the cached one and puts it in the cache in
   its place, and get_mapper(name) without force_reload returns the instance
   the cache holds. *)

\* a step in which get_mapper was called
GetMapperStep ==
    /\ last'.op = "get_mapper"
    /\ last' # last \/ nextId' # nextId

C26_OneInstancePerName ==
    [][/\ \A d \in DOMAIN instances : instances[d].id <= nextId
       /\ \A d, e \in DOMAIN instances :
              d # e => instances[d].id # instances[e].id
       /\ nextId' # nextId =>
              /\ nextId' = nextId + 1
              /\ \E c \in DOMAIN instances' :
                    /\ instances'[c].id = nextId'
                    /\ DOMAIN instances' = DOMAIN instances \cup {c}
                    /\ \A d \in DOMAIN instances' \ {c} :
                           instances'[d] = instances[d]
                    /\ \/ c \notin DOMAIN instances
                       \/ last'.op = "get_mapper" /\ last'.force
       /\ nextId' = nextId => instances' = instances
       /\ (GetMapperStep /\ last'.exc = "none") =>
              LET c == ResolveCanonicalName(aliases, last'.name)
              IN  /\ c \in DOMAIN instances'
                  /\ last'.inst = instances'[c]
                  /\ (last'.force \/ c \notin DOMAIN instances) =>
                         /\ last'.inst.id = nextId + 1
                         /\ nextId' = nextId + 1
                  /\ (~last'.force /\ c \in DOMAIN instances) =>
                         /\ last'.inst = instances[c]
                         /\ instances' = instances
                         /\ nextId' = nextId
      ]_vars

\* a forced get_mapper put a second instance in the place of the first
C26_Witness ==
    /\ last.op = "get_mapper"
    /\ last.force
    /\ last.exc = "none"
    /\ last.inst.id = 2
    /\ DOMAIN instances = {ResolveCanonicalName(aliases, last.name)}
    /\ instances[ResolveCanonicalName(aliases, last.name)] = last.inst


-----------------------------------------------------------------------------
(* C27: after any sequence of register, register_lazy and get_mapper calls,
   the instance get_mapper(name) returns without force_reload was built by
   the factory now registered under the canonical name; after a name with a
   cached instance is registered again with another class, get_mapper(name)
   returns an instance of the newly registered class. *)

\* the class the factory now registered under canonical name c gives
FactoryClass(c) ==
    LET f == DictGet(mappers, c)
    IN  IF f.kind = "lazy" THEN LazyLoader(f.target).cls ELSE f.target

C27_InstanceOfCurrentFactory ==
    (last.op = "get_mapper" /\ ~last.force /\ last.exc = "none") =>
        last.inst.cls = FactoryClass(ResolveCanonicalName(aliases, last.name))


-----------------------------------------------------------------------------
(* C28: in every state a SchemaRegistry reaches through register,
   register_lazy, get_mapper, info, map_dpp, map_part and map_layers, every
   canonical name with a cached instance is a key of the factory table and
   has a cached config, every name with a cached config is a key of the
   factory table, and every alias maps to a key of the factory table; no
   operation removes an entry from the factory table or the alias table. *)

FactoryKeys == Range(DictKeys(mappers))

TablesConsistent ==
    /\ DOMAIN instances \subseteq FactoryKeys
    /\ DOMAIN instances \subseteq DOMAIN configs
    /\ DOMAIN configs \subseteq FactoryKeys
    /\ \A i \in 1..Len(aliases) : aliases[i][2] \in FactoryKeys

C28_RegistryTablesConsistent ==
    [][/\ TablesConsistent
       /\ TablesConsistent'
       /\ FactoryKeys \subseteq FactoryKeys'
       /\ Range(DictKeys(aliases)) \subseteq Range(DictKeys(aliases'))
      ]_vars

\* two schemas registered, one under an alias, and a mapper of one of them
\* cached with its config
C28_Witness ==
    /\ Len(mappers) = 2
    /\ Len(aliases) > 0
    /\ DOMAIN instances # {}
    /\ DOMAIN configs = DOMAIN instances
    /\ last.op = "get_mapper"
    /\ DictHas(aliases, last.name)


-----------------------------------------------------------------------------
(* C29: part mapping is deterministic in the set of bound ids: for a part
   whose ISA-95 class ids came from two or more bind_ontology calls, the
   EquipmentClassID map_part_class chooses depends only on the set of bound
   class ids, so the same ids bound in another call order or in another run
   give the same EquipmentClassID. *)

\* the bindings a part can have after the two bind_ontology calls first and
\* second, made in that order on a part with no binding
BindingsAfter(first, second) ==
    UNION {BindOntology(r1, second.ontology_name, second.class_ids,
                        second.case_item_ids, second.metadata) :
           r1 \in BindOntology(<<>>, first.ontology_name, first.class_ids,
                               first.case_item_ids, first.metadata)}

\* the EquipmentClassID map_part_class gives the part when its bindings are obs
EquipmentClassIdWith(obs) ==
    ISA95MapPartClass(isa_mapper.config,
                      [HeldPart EXCEPT !.ontology_bindings = obs]).EquipmentClassID

C29_EquipmentClassDeterministic ==
    LET calls == CallsFor("ISA-95")
    IN  (/\ equipment.kind = "Equipment"
         /\ Len(calls) = 2
         /\ calls[1].class_ids.some /\ calls[2].class_ids.some) =>
            \A obs \in BindingsAfter(calls[1], calls[2])
                       \cup BindingsAfter(calls[2], calls[1]) :
                Range(obs["ISA-95"].class_ids)
                    = Range(ontology_bindings["ISA-95"].class_ids)
                => EquipmentClassIdWith(obs) = equipment.EquipmentClassID


-----------------------------------------------------------------------------
(* C30: a registry operation that raises leaves the factory table, the alias
   table and the mapper-instance cache as they were before the call: register
   with a class that is not a SchemaMapper or whose construction fails,
   get_mapper with an unknown name, get_mapper whose lazy loader or mapper
   constructor raises; a failure of the lazy loader is not cached, so a later
   get_mapper for the same name runs the loader again. *)

\* what a lazy loader raises
LoaderErrors == {"ImportError", "AttributeError", "TypeError"}

C30_FailedCallChangesNoTable ==
    [][/\ last'.exc # "none" =>
              /\ mappers' = mappers
              /\ aliases' = aliases
              /\ instances' = instances
       /\ (last'.op = "get_mapper" /\ last'.exc \in LoaderErrors) =>
              LET c == ResolveCanonicalName(aliases', last'.name)
              IN  /\ DictGet(mappers', c).kind = "lazy"
                  /\ LazyLoader(DictGet(mappers', c).target).exc = last'.exc
                  /\ GetMapper(mappers', aliases', instances', configs', files',
                               nextId', last'.name, last'.force).exc = last'.exc
      ]_vars

\* a forced get_mapper whose constructor raised left the cached instance of
\* the name in place
C30_Witness ==
    /\ last.op = "get_mapper"
    /\ last.force
    /\ last.exc = "RuntimeError"
    /\ ResolveCanonicalName(aliases, last.name) \in DOMAIN instances
    /\ DictGet(mappers, ResolveCanonicalName(aliases, last.name)).target
           = "FailingMapper"

=============================================================================
